---- MODULE Spec2Model ----
(***************************************************************************)
(* A model of the orchestration core of awsmetagpt:                        *)
(*   - TaskScheduler      (app/services/orchestration/task_scheduler.py)   *)
(*   - AgentStateManager  (app/services/orchestration/agent_state_manager) *)
(*   - AgentOrchestrator  (app/services/orchestration/orchestrator.py)     *)
(*   - the task loop of the older AgentOrchestrator                        *)
(*                        (app/services/agent_orchestrator.py)             *)
(*   - ProcessManager     (app/services/sandbox/process_manager.py)        *)
(* Each component has a specification of its own (SpecSched and SpecGraph  *)
(* for the scheduler, SpecAgents and SpecNotify for the agent manager,     *)
(* SpecOrch, SpecLegacy, FairSpecLegacy and SpecTerminate for the older    *)
(* orchestrator, and SpecProcess for the process manager); the variables   *)
(* of the other components stay as constructed.  In the scheduler's own       *)
(* specifications task ids are the numbers 1..MaxTasks, a smaller id being *)
(* created earlier; the orchestrators name tasks, agents and sessions by   *)
(* strings as the code does.  A Python dict is a function together with    *)
(* the sequence of its keys in insertion order.                            *)
(***************************************************************************)
EXTENDS Integers, Sequences, FiniteSets, TLC

\* ---------------------------------------------------------------- bounds
MaxTasks == 3
MaxDeps == 2
MaxRetries == 1

TaskIds == 1..MaxTasks

\* ------------------------------------------------------------- constants
\* models.py: TaskStatus, TaskPriority, AgentState
TaskStatus == {"pending", "running", "completed", "failed", "cancelled"}
TaskPriority == {"low", "normal", "high", "critical"}
AgentState == {"idle", "initializing", "thinking", "executing", "waiting",
               "completed", "failed", "terminated"}
\* the priorities and retry budgets offered to add_task
InputPriorities == {"normal", "high"}
InputMaxRetries == 0..MaxRetries
\* models.py:50 and models.py:60, the defaults of AgentTask
DefaultPriority == "normal"
DefaultMaxRetries == 3
InputDeps == {d \in SUBSET TaskIds : Cardinality(d) <= MaxDeps}

VARIABLES
    \* TaskScheduler
    task_registry,          \* id -> AgentTask
    task_registry_keys,     \* the keys of task_registry, in insertion order
    dependency_graph,       \* id -> set of ids it depends on
    reverse_dependencies,   \* id -> set of ids that depend on it
    was_completed,          \* history: ids whose status has been Completed
    raised,                 \* TRUE iff the last call ended in an exception
    result,                 \* what the last query returned (NoResult otherwise)
    \* the older AgentOrchestrator (agent_orchestrator.py), one session
    active_sessions,        \* session id -> session_data
    agent_instances,        \* agent id -> AgentInstance
    task_queue,             \* session id -> list of task ids not yet dispatched
    legacy_registry,        \* its task_registry: task id -> AgentTask
    execution_tasks,        \* _execute_session: the batch being gathered
    coroutine,              \* task id -> where its _execute_task call stands
    pc,                     \* where _execute_session stands
    sandbox_cleanups,       \* session ids e2b_service.cleanup_sandbox got
    code_artifacts,         \* ids of the tasks that returned a code artifact
    sandbox_handoffs,       \* how often _create_e2b_preview has been called
    \* AgentStateManager (agent_state_manager.py)
    agents,                 \* agent id -> AgentInstance
    role_to_agent,          \* role -> agent id
    state_change_callbacks, \* the registered observers, by what each does
    invoked,                \* the observers the last manager call has called
    \* the AgentOrchestrator of orchestration/orchestrator.py
    sessions,               \* session id -> OrchestrationSession
    execution,              \* session id -> where its _execute_session stands
    created,                \* how many session ids create_session has drawn
    \* a ProcessManager (sandbox/process_manager.py)
    processes,              \* process id -> ProcessInfo
    start_calls             \* process id -> where its start_process call stands

sched_vars == <<task_registry, task_registry_keys, dependency_graph,
                reverse_dependencies, was_completed>>
legacy_vars == <<active_sessions, agent_instances, task_queue, legacy_registry,
                 execution_tasks, coroutine, pc, sandbox_cleanups,
                 code_artifacts, sandbox_handoffs>>
handoff_vars == <<code_artifacts, sandbox_handoffs>>
callback_vars == <<state_change_callbacks, invoked>>
agent_vars == <<agents, role_to_agent, callback_vars>>
orch_vars == <<sessions, execution, created>>
process_vars == <<processes, start_calls>>
vars == <<sched_vars, raised, result, legacy_vars, process_vars, agent_vars, orch_vars>>

NoResult == [op |-> "none"]

\* ------------------------------------------------------------- helpers
Range(s) == {s[i] : i \in DOMAIN s}

\* all orders in which a Python set over TaskIds may be iterated
IterOrders == {s \in [1..MaxTasks -> TaskIds] : Range(s) = TaskIds}

\* the members of set S listed in the iteration order iter
RECURSIVE SeqOfSet(_, _)
SeqOfSet(S, iter) ==
    IF iter = <<>> THEN <<>>
    ELSE IF Head(iter) \in S THEN <<Head(iter)>> \o SeqOfSet(S, Tail(iter))
         ELSE SeqOfSet(S, Tail(iter))

\* ----------------------------------------------------------- AgentTask
\* models.py AgentTask: the fields the scheduler reads and writes
AgentTask(role, priority, dependencies, max_retries) ==
    [agent_role |-> role, priority |-> priority, status |-> "pending",
     dependencies |-> dependencies, retry_count |-> 0,
     max_retries |-> max_retries]

is_failed(task) == task.status = "failed"

\* mutant: the budget test off by one
can_retry_offbyone(task) ==
    is_failed(task) /\ task.retry_count <= task.max_retries

can_retry(task) == is_failed(task) /\ task.retry_count < task.max_retries

\* ---------------------------------------------------------- TaskScheduler
_priority_value(priority) ==
    CASE priority = "low" -> 1
      [] priority = "normal" -> 2
      [] priority = "high" -> 3
      [] priority = "critical" -> 4
      [] OTHER -> 2

\* mutant: the list is left in the order it has
SortByPriority_unsorted(ids, registry) == ids

\* list.sort(key=priority value, reverse=True): stable, highest value first
SortByPriority(ids, registry) ==
    LET at(v) == SelectSeq(ids, LAMBDA t : _priority_value(registry[t].priority) = v)
    IN  at(4) \o at(3) \o at(2) \o at(1)

\* mutant: the status of a task is not looked at
get_ready_tasks_any_status(completed_tasks) ==
    LET ready_tasks == SelectSeq(task_registry_keys,
            LAMBDA t : dependency_graph[t] \subseteq completed_tasks)
    IN  SortByPriority(ready_tasks, task_registry)

\* get_ready_tasks(completed_tasks): the ids of the returned tasks, in order
get_ready_tasks(completed_tasks) ==
    LET ready_tasks == SelectSeq(task_registry_keys,
            LAMBDA t : /\ task_registry[t].status = "pending"
                       /\ dependency_graph[t] \subseteq completed_tasks)
    IN  SortByPriority(ready_tasks, task_registry)

\* mutant: a dependency without an entry yet does not get one
AddReverse_existing_only(rev, id, deps) ==
    [d \in DOMAIN rev |-> IF d \in deps THEN rev[d] \cup {id} ELSE rev[d]]

\* the reverse-dependency update of add_task (lines 33-36)
AddReverse(rev, id, deps) ==
    [d \in (DOMAIN rev) \cup deps |->
        IF d \in deps
        THEN (IF d \in DOMAIN rev THEN rev[d] ELSE {}) \cup {id}
        ELSE rev[d]]

\* add_task as a function of the scheduler's four dicts
Scheduler(registry, keys, graph, rev) ==
    [task_registry |-> registry, task_registry_keys |-> keys,
     dependency_graph |-> graph, reverse_dependencies |-> rev]

\* mutant: a task whose id is already registered replaces the earlier one
add_task_to_overwrite(sched, id, task) ==
    [raised |-> FALSE,
     sched |-> Scheduler(
        (id :> task) @@ sched.task_registry,
        IF id \in DOMAIN sched.task_registry THEN sched.task_registry_keys
        ELSE Append(sched.task_registry_keys, id),
        (id :> task.dependencies) @@ sched.dependency_graph,
        AddReverse(sched.reverse_dependencies, id, task.dependencies))]

add_task_to(sched, id, task) ==
    IF id \in DOMAIN sched.task_registry
    THEN [raised |-> TRUE, sched |-> sched]
    ELSE [raised |-> FALSE,
          sched |-> Scheduler(
            (id :> task) @@ sched.task_registry,
            Append(sched.task_registry_keys, id),
            (id :> task.dependencies) @@ sched.dependency_graph,
            AddReverse(sched.reverse_dependencies, id, task.dependencies))]

add_task(id, task) ==
    LET r == add_task_to(Scheduler(task_registry, task_registry_keys,
                            dependency_graph, reverse_dependencies), id, task)
    IN  /\ task_registry' = r.sched.task_registry
        /\ task_registry_keys' = r.sched.task_registry_keys
        /\ dependency_graph' = r.sched.dependency_graph
        /\ reverse_dependencies' = r.sched.reverse_dependencies
        /\ raised' = r.raised
        /\ UNCHANGED was_completed

\* the ids mark_task_completed(task_id) returns, read in the state after it
newly_available(task_id, registry) ==
    IF task_id \in DOMAIN reverse_dependencies
    THEN {d \in reverse_dependencies[task_id] : registry[d].status = "pending"}
    ELSE {}

mark_task_completed(task_id) ==
    IF task_id \notin DOMAIN task_registry
    THEN /\ raised' = TRUE
         /\ UNCHANGED sched_vars
    ELSE /\ task_registry' =
                [task_registry EXCEPT ![task_id].status = "completed"]
         /\ was_completed' = was_completed \cup {task_id}
         /\ raised' = FALSE
         /\ UNCHANGED <<task_registry_keys, dependency_graph,
                        reverse_dependencies>>

mark_task_failed(task_id) ==
    IF task_id \notin DOMAIN task_registry
    THEN /\ raised' = TRUE
         /\ UNCHANGED sched_vars
    ELSE /\ task_registry' =
                [task_registry EXCEPT ![task_id].status = "failed"]
         /\ raised' = FALSE
         /\ UNCHANGED <<task_registry_keys, dependency_graph,
                        reverse_dependencies, was_completed>>

can_retry_task(task_id) ==
    IF task_id \notin DOMAIN task_registry THEN FALSE
    ELSE can_retry(task_registry[task_id])

retry_task(task_id) ==
    IF task_id \notin DOMAIN task_registry
    THEN /\ raised' = TRUE
         /\ UNCHANGED sched_vars
    ELSE IF ~can_retry(task_registry[task_id])
    THEN /\ raised' = TRUE
         /\ UNCHANGED sched_vars
    ELSE /\ task_registry' =
                [task_registry EXCEPT ![task_id].status = "pending",
                    ![task_id].retry_count = @ + 1]
         /\ raised' = FALSE
         /\ UNCHANGED <<task_registry_keys, dependency_graph,
                        reverse_dependencies, was_completed>>

\* ---- validate_dependencies (lines 123-159)
\* every id the graph mentions
GraphIds(graph) == (DOMAIN graph) \cup UNION {graph[t] : t \in DOMAIN graph}

\* dependency_graph.get(node, set())
Neighbors(graph, node) == IF node \in DOMAIN graph THEN graph[node] ELSE {}

\* mutant: the first loop stops at the first task with a missing dependency
MissingErrors_first_only(keys, graph) ==
    LET lacking == SelectSeq(keys, LAMBDA t : graph[t] \ (DOMAIN graph) # {})
    IN  IF lacking = << >> THEN << >>
        ELSE <<[kind |-> "missing", task |-> Head(lacking),
                missing |-> graph[Head(lacking)] \ (DOMAIN graph)]>>

\* the first loop: one error per task with dependencies outside the registry
RECURSIVE MissingErrors(_, _)
MissingErrors(keys, graph) ==
    IF keys = << >> THEN << >>
    ELSE LET task_id == Head(keys)
             missing_deps == graph[task_id] \ (DOMAIN graph)
         IN  (IF missing_deps # {}
              THEN <<[kind |-> "missing", task |-> task_id,
                      missing |-> missing_deps]>>
              ELSE << >>) \o MissingErrors(Tail(keys), graph)

\* has_cycle(node): st holds the closure's visited and rec_stack sets; the
\* value is the returned boolean together with the two sets as the call
\* leaves them (rec_stack is not unwound on the `return True` paths)
RECURSIVE has_cycle(_, _, _, _)
RECURSIVE HasCycleIn(_, _, _, _)
\* mutant: the node stays in rec_stack when its neighbours have no cycle
has_cycle_never_unwound(node, st, graph, iter) ==
    IF node \in st.rec_stack THEN [st EXCEPT !.ret = TRUE]
    ELSE IF node \in st.visited THEN [st EXCEPT !.ret = FALSE]
    ELSE HasCycleIn(SeqOfSet(Neighbors(graph, node), iter),
                    [ret |-> FALSE,
                     visited |-> st.visited \cup {node},
                     rec_stack |-> st.rec_stack \cup {node}],
                    graph, iter)

has_cycle(node, st, graph, iter) ==
    IF node \in st.rec_stack THEN [st EXCEPT !.ret = TRUE]
    ELSE IF node \in st.visited THEN [st EXCEPT !.ret = FALSE]
    ELSE LET entered == [ret |-> FALSE,
                         visited |-> st.visited \cup {node},
                         rec_stack |-> st.rec_stack \cup {node}]
             r == HasCycleIn(SeqOfSet(Neighbors(graph, node), iter),
                             entered, graph, iter)
         IN  IF r.ret THEN r
             ELSE [r EXCEPT !.rec_stack = r.rec_stack \ {node}]

\* the loop over the neighbours inside has_cycle
HasCycleIn(neighbors, st, graph, iter) ==
    IF neighbors = << >> THEN [st EXCEPT !.ret = FALSE]
    ELSE LET r == has_cycle(Head(neighbors), st, graph, iter)
         IN  IF r.ret THEN r
             ELSE HasCycleIn(Tail(neighbors), r, graph, iter)

\* the second loop: a DFS from every task not yet visited
RECURSIVE CycleErrors(_, _, _, _)
CycleErrors(keys, st, graph, iter) ==
    IF keys = << >> THEN << >>
    ELSE LET task_id == Head(keys)
         IN  IF task_id \in st.visited
             THEN CycleErrors(Tail(keys), st, graph, iter)
             ELSE LET r == has_cycle(task_id, st, graph, iter)
                  IN  (IF r.ret
                       THEN <<[kind |-> "cycle", task |-> task_id]>>
                       ELSE << >>)
                      \o CycleErrors(Tail(keys), r, graph, iter)

\* validate_dependencies() over a registry given by its keys and graph; iter
\* is the order in which Python happens to iterate the dependency sets
\* mutant: only missing dependencies are reported, cycles are not looked for
ValidateGraph_missing_only(keys, graph, iter) ==
    MissingErrors(keys, graph)

ValidateGraph(keys, graph, iter) ==
    MissingErrors(keys, graph)
    \o CycleErrors(keys, [ret |-> FALSE, visited |-> {}, rec_stack |-> {}],
                   graph, iter)

validate_dependencies(iter) ==
    ValidateGraph(task_registry_keys, dependency_graph, iter)

\* ---- get_execution_order (lines 161-183): Kahn's algorithm
\* mutant: a dependent is queued as soon as one of its dependencies is placed
RECURSIVE Kahn_eager(_, _, _, _)
Kahn_eager(in_degree, queue, order, iter) ==
    IF queue = << >> \/ Len(order) > Cardinality(DOMAIN in_degree) THEN order
    ELSE LET sorted == SortByPriority(queue, task_registry)
             current == Head(sorted)
             dependents ==
                 SeqOfSet(Neighbors(reverse_dependencies, current), iter)
         IN  Kahn_eager(in_degree, Tail(sorted) \o dependents,
                        Append(order, current), iter)

RECURSIVE Kahn(_, _, _, _)
Kahn(in_degree, queue, order, iter) ==
    IF queue = << >> THEN order
    ELSE LET sorted == SortByPriority(queue, task_registry)
             current == Head(sorted)
             dependents ==
                 SeqOfSet(Neighbors(reverse_dependencies, current), iter)
             in_degree2 == [t \in DOMAIN in_degree |->
                 IF t \in Range(dependents) THEN in_degree[t] - 1
                 ELSE in_degree[t]]
             freed == SelectSeq(dependents, LAMBDA t : in_degree2[t] = 0)
         IN  Kahn(in_degree2, Tail(sorted) \o freed,
                  Append(order, current), iter)

get_execution_order(iter) ==
    LET in_degree == [t \in DOMAIN dependency_graph |->
                        Cardinality(dependency_graph[t])]
        queue == SelectSeq(task_registry_keys, LAMBDA t : in_degree[t] = 0)
        order == Kahn(in_degree, queue, << >>, iter)
    IN  IF Len(order) # Cardinality(DOMAIN task_registry)
        THEN [raised |-> TRUE, order |-> << >>]
        ELSE [raised |-> FALSE, order |-> order]

\* ------------------------------------------- agent_orchestrator.py (older)
\* schemas.py AgentRole, in the order _generate_execution_plan visits them
AgentRole == <<"product_manager", "architect", "project_manager",
               "engineer", "qa_engineer", "devops">>
Roles == Range(AgentRole)

\* the one session id (a fresh uuid4 in the code)
SessionId == "s1"

\* the task _generate_execution_plan creates for a role: its id (the role's
\* prefix, the uuid suffix left out), its priority and the roles it waits for
PlanTaskId(role) ==
    CASE role = "product_manager" -> "pm_analysis"
      [] role = "architect" -> "arch_design"
      [] role = "project_manager" -> "pm_planning"
      [] role = "engineer" -> "eng_implementation"
      [] role = "qa_engineer" -> "qa_testing"
      [] role = "devops" -> "devops_infrastructure"

PlanPriority(role) ==
    CASE role = "product_manager" -> "high"
      [] role = "architect" -> "high"
      [] role = "project_manager" -> "normal"
      [] role = "engineer" -> "critical"
      [] role = "qa_engineer" -> "high"
      [] role = "devops" -> "normal"

PlanDependsOnRoles(role) ==
    CASE role = "product_manager" -> {}
      [] role = "architect" -> {"product_manager"}
      [] role = "project_manager" -> {"product_manager", "architect"}
      [] role = "engineer" -> {"architect", "project_manager"}
      [] role = "qa_engineer" -> {"engineer"}
      [] role = "devops" -> {"engineer", "qa_engineer"}

\* the roles of active_agents, in plan order
PlanRoles(active_agents) ==
    SelectSeq(AgentRole, LAMBDA r : r \in active_agents)

\* agent_orchestrator.py AgentTask (lines 42-58)
LegacyTask(role, active_agents) ==
    [agent_role |-> role, priority |-> PlanPriority(role),
     dependencies |->
        {PlanTaskId(r) : r \in PlanDependsOnRoles(role) \cap active_agents},
     started_at |-> FALSE, completed_at |-> FALSE, error |-> FALSE,
     result |-> FALSE, retry_count |-> 0, max_retries |-> DefaultMaxRetries]

\* _generate_execution_plan: the task list, as ids in plan order
_generate_execution_plan(active_agents) ==
    [i \in 1..Len(PlanRoles(active_agents)) |->
        PlanTaskId(PlanRoles(active_agents)[i])]

\* mutant: a dependency only has to be registered
_are_dependencies_completed_registered(task) ==
    \A dep_id \in task.dependencies : dep_id \in DOMAIN legacy_registry

_are_dependencies_completed(task) ==
    \A dep_id \in task.dependencies :
        /\ dep_id \in DOMAIN legacy_registry
        /\ legacy_registry[dep_id].completed_at

\* lines 370-374: of the ready tasks, the first one of every role
RECURSIVE OnePerRole(_, _)
OnePerRole(ready_tasks, taken) ==
    IF ready_tasks = << >> THEN << >>
    ELSE LET task == Head(ready_tasks)
             role == legacy_registry[task].agent_role
         IN  IF role \notin taken
             THEN <<task>> \o OnePerRole(Tail(ready_tasks), taken \cup {role})
             ELSE OnePerRole(Tail(ready_tasks), taken)

LegacyInit ==
    /\ active_sessions = << >>
    /\ agent_instances = << >>
    /\ task_queue = << >>
    /\ legacy_registry = << >>
    /\ execution_tasks = << >>
    /\ coroutine = << >>
    /\ pc = "none"
    /\ sandbox_cleanups = {}
    /\ code_artifacts = {}
    /\ sandbox_handoffs = 0

\* create_session (lines 116-168) with _initialize_agents and
\* _generate_execution_plan; the agent of a role is named by the role
create_session_legacy(active_agents) ==
    LET plan == _generate_execution_plan(active_agents)
        roles == PlanRoles(active_agents)
    IN  /\ pc = "none"
        /\ active_sessions' = (SessionId :>
                [status |-> "initializing", progress |-> 0,
                 agents |-> roles, tasks |-> plan,
                 total_tasks |-> Len(plan), completed_tasks |-> 0,
                 failed_tasks |-> 0])
        /\ agent_instances' = [r \in active_agents |->
                [role |-> r, state |-> "idle", current_task |-> "none",
                 completed_tasks |-> << >>, failed_tasks |-> << >>]]
        /\ legacy_registry' = [t \in Range(plan) |->
                LegacyTask(CHOOSE r \in active_agents : PlanTaskId(r) = t,
                           active_agents)]
        /\ task_queue' = (SessionId :> plan)
        /\ pc' = "created"
        /\ UNCHANGED <<execution_tasks, coroutine, handoff_vars>>

\* _update_session_progress (lines 909-930)
_update_session_progress(data_of, status, progress) ==
    [data_of EXCEPT ![SessionId].status = status,
                     ![SessionId].progress = progress]

\* _execute_session, lines 346-349: the background task starts
ExecuteSessionStart ==
    /\ pc = "created"
    /\ active_sessions' = _update_session_progress(active_sessions, "running", 10)
    /\ pc' = "loop"
    /\ UNCHANGED <<agent_instances, task_queue, legacy_registry,
                   execution_tasks, coroutine, handoff_vars>>

\* mutant: with no ready task the loop always sleeps and tries again
ExecuteSessionLoop_no_deadlock_check ==
    /\ pc = "loop"
    /\ LET queue == task_queue[SessionId]
           ready_tasks == SelectSeq(queue,
                LAMBDA t : _are_dependencies_completed(legacy_registry[t]))
           batch == OnePerRole(ready_tasks, {})
       IN  IF queue = << >>
           THEN /\ pc' = "artifacts"
                /\ UNCHANGED <<task_queue, execution_tasks, coroutine>>
           ELSE IF ready_tasks = << >>
           THEN UNCHANGED <<pc, task_queue, execution_tasks, coroutine>>
           ELSE /\ execution_tasks' = batch
                /\ task_queue' = [task_queue EXCEPT ![SessionId] =
                        SelectSeq(queue, LAMBDA t : t \notin Range(batch))]
                /\ coroutine' = [t \in Range(batch) |-> "created"]
                /\ pc' = "gather"
    /\ UNCHANGED <<active_sessions, agent_instances, legacy_registry,
                   handoff_vars>>

\* one pass of `while self.task_queue[session_id]` up to the gather call
\* (lines 352-380), or the exit from the loop
ExecuteSessionLoop ==
    /\ pc = "loop"
    /\ LET queue == task_queue[SessionId]
           ready_tasks == SelectSeq(queue,
                LAMBDA t : _are_dependencies_completed(legacy_registry[t]))
           batch == OnePerRole(ready_tasks, {})
       IN  IF queue = << >>
           THEN /\ pc' = "artifacts"
                /\ UNCHANGED <<task_queue, execution_tasks, coroutine>>
           ELSE IF ready_tasks = << >>
           THEN IF \A t \in Range(queue) : legacy_registry[t].dependencies # {}
                THEN \* "Deadlock detected": break
                     /\ pc' = "artifacts"
                     /\ UNCHANGED <<task_queue, execution_tasks, coroutine>>
                ELSE \* asyncio.sleep(1); continue
                     UNCHANGED <<pc, task_queue, execution_tasks, coroutine>>
           ELSE /\ execution_tasks' = batch
                /\ task_queue' = [task_queue EXCEPT ![SessionId] =
                        SelectSeq(queue, LAMBDA t : t \notin Range(batch))]
                /\ coroutine' = [t \in Range(batch) |-> "created"]
                /\ pc' = "gather"
    /\ UNCHANGED <<active_sessions, agent_instances, legacy_registry,
                   handoff_vars>>

\* _execute_task up to its first await (lines 425-458): find an idle agent of
\* the task's role and start; with none, the handler at 478-491 marks the
\* agent the search loop stopped at (the last of the session) Failed
FirstIdleAgent(role) ==
    LET session_agents == active_sessions[SessionId].agents
        idle == SelectSeq(session_agents, LAMBDA a :
                    agent_instances[a].role = role
                    /\ agent_instances[a].state = "idle")
    IN  IF idle = << >> THEN "none" ELSE Head(idle)

ExecuteTaskStart(task) ==
    /\ pc = "gather"
    /\ task \in DOMAIN coroutine
    /\ coroutine[task] = "created"
    /\ LET agent_id == FirstIdleAgent(legacy_registry[task].agent_role)
           session_agents == active_sessions[SessionId].agents
           last == session_agents[Len(session_agents)]
       IN  IF agent_id = "none"
           THEN /\ agent_instances' = [agent_instances EXCEPT
                        ![last].state = "failed",
                        ![last].failed_tasks = Append(@, task)]
                /\ coroutine' = [coroutine EXCEPT ![task] = "raised"]
                /\ UNCHANGED legacy_registry
           ELSE /\ agent_instances' = [agent_instances EXCEPT
                        ![agent_id].state = "executing",
                        ![agent_id].current_task = task]
                /\ legacy_registry' =
                        [legacy_registry EXCEPT ![task].started_at = TRUE]
                /\ coroutine' = [coroutine EXCEPT ![task] = agent_id]
    /\ UNCHANGED <<active_sessions, task_queue, execution_tasks, pc,
                   handoff_vars>>

\* types _process_agent_output gives the artifacts of a result (lines 788-842)
ArtifactTypes == {"code", "documentation"}

\* _execute_task after _execute_agent_task returned (lines 460-476); the
\* result it returns holds artifacts of some types
ExecuteTaskReturn(task) ==
    /\ pc = "gather"
    /\ task \in DOMAIN coroutine
    /\ coroutine[task] \in DOMAIN agent_instances
    /\ LET agent_id == coroutine[task]
       IN  agent_instances' = [agent_instances EXCEPT
                ![agent_id].state = "completed",
                ![agent_id].current_task = "none",
                ![agent_id].completed_tasks = Append(@, task)]
    /\ coroutine' = [coroutine EXCEPT ![task] = "returned"]
    /\ \E artifact_types \in SUBSET ArtifactTypes :
            code_artifacts' = IF "code" \in artifact_types
                              THEN code_artifacts \cup {task}
                              ELSE code_artifacts
    /\ UNCHANGED <<active_sessions, task_queue, legacy_registry,
                   execution_tasks, pc, sandbox_handoffs>>

\* _execute_task after _execute_agent_task raised (lines 478-491)
ExecuteTaskRaise(task) ==
    /\ pc = "gather"
    /\ task \in DOMAIN coroutine
    /\ coroutine[task] \in DOMAIN agent_instances
    /\ LET agent_id == coroutine[task]
       IN  agent_instances' = [agent_instances EXCEPT
                ![agent_id].state = "failed",
                ![agent_id].failed_tasks = Append(@, task)]
    /\ coroutine' = [coroutine EXCEPT ![task] = "raised"]
    /\ UNCHANGED <<active_sessions, task_queue, legacy_registry,
                   execution_tasks, pc, handoff_vars>>

\* lines 383-400: the results of the batch, taken in order
RECURSIVE ProcessResults(_, _, _)
ProcessResults(batch, data_of, registry) ==
    IF batch = << >> THEN [data_of |-> data_of, registry |-> registry]
    ELSE LET task == Head(batch)
             data == data_of[SessionId]
         IN  IF coroutine[task] = "raised"
             THEN ProcessResults(Tail(batch),
                    [data_of EXCEPT ![SessionId].failed_tasks = @ + 1],
                    [registry EXCEPT ![task].error = TRUE])
             ELSE ProcessResults(Tail(batch),
                    _update_session_progress(
                        [data_of EXCEPT ![SessionId].completed_tasks = @ + 1],
                        "running",
                        (((data.completed_tasks + 1) * 80) \div data.total_tasks)
                            + 10),
                    [registry EXCEPT ![task].result = TRUE,
                                     ![task].completed_at = TRUE])

\* mutant: the results are taken as soon as one call of the batch settles
ExecuteSessionGathered_first_settled ==
    /\ pc = "gather"
    /\ \E t \in DOMAIN coroutine : coroutine[t] \in {"returned", "raised"}
    /\ LET r == ProcessResults(execution_tasks, active_sessions,
                               legacy_registry)
       IN  /\ active_sessions' = r.data_of
           /\ legacy_registry' = r.registry
    /\ pc' = "loop"
    /\ UNCHANGED <<agent_instances, task_queue, execution_tasks, coroutine,
                   handoff_vars>>

\* asyncio.gather has returned: every call of the batch has settled
ExecuteSessionGathered ==
    /\ pc = "gather"
    /\ \A t \in DOMAIN coroutine : coroutine[t] \in {"returned", "raised"}
    /\ LET r == ProcessResults(execution_tasks, active_sessions,
                               legacy_registry)
       IN  /\ active_sessions' = r.data_of
           /\ legacy_registry' = r.registry
    /\ pc' = "loop"
    /\ UNCHANGED <<agent_instances, task_queue, execution_tasks, coroutine,
                   handoff_vars>>

\* _process_session_artifacts (lines 844-871): the artifacts of the tasks
\* that have a result are collected, and with a code artifact among them
\* _create_e2b_preview (874-907) creates the sandbox, writes and runs
_process_session_artifacts ==
    LET with_code == {t \in Range(active_sessions[SessionId].tasks) :
                        /\ t \in DOMAIN legacy_registry
                        /\ legacy_registry[t].result
                        /\ t \in code_artifacts}
    IN  /\ sandbox_handoffs' = IF with_code # {} THEN sandbox_handoffs + 1
                               ELSE sandbox_handoffs
        /\ UNCHANGED code_artifacts

\* lines 402-406: artifacts are processed and the session is finalized
ExecuteSessionFinalize ==
    /\ pc = "artifacts"
    /\ _process_session_artifacts
    /\ active_sessions' =
            _update_session_progress(active_sessions, "completed", 100)
    /\ pc' = "done"
    /\ UNCHANGED <<agent_instances, task_queue, legacy_registry,
                   execution_tasks, coroutine>>

\* a dict without the given keys
Without(dict, keys) == [k \in (DOMAIN dict) \ keys |-> dict[k]]

\* _cleanup_session (lines 937-970): the session's agents, tasks and queue
\* are deleted, the sandbox service is asked to clean up, and the session is
\* deleted; a session that is not there is left alone
_cleanup_session ==
    IF SessionId \in DOMAIN active_sessions
    THEN LET session_data == active_sessions[SessionId]
         IN  /\ agent_instances' =
                    Without(agent_instances, Range(session_data.agents))
             /\ legacy_registry' =
                    Without(legacy_registry, Range(session_data.tasks))
             /\ task_queue' = Without(task_queue, {SessionId})
             /\ sandbox_cleanups' = sandbox_cleanups \cup {SessionId}
             /\ active_sessions' = Without(active_sessions, {SessionId})
             /\ code_artifacts' =
                    code_artifacts \ Range(session_data.tasks)
             /\ UNCHANGED sandbox_handoffs
    ELSE UNCHANGED <<agent_instances, legacy_registry, task_queue,
                     sandbox_cleanups, active_sessions, handoff_vars>>

\* terminate_session (lines 997-1004), callable whatever the session does
terminate_session ==
    /\ pc # "none"
    /\ _cleanup_session
    /\ UNCHANGED <<execution_tasks, coroutine, pc>>

\* _delayed_cleanup (lines 932-935), started by the finally clause of
\* _execute_session and run five minutes later
_delayed_cleanup ==
    /\ pc = "done"
    /\ _cleanup_session
    /\ pc' = "cleaned"
    /\ UNCHANGED <<execution_tasks, coroutine>>

\* _execute_session once the session has been deleted under it: the lookups
\* at lines 346 and 352 raise KeyError, _process_session_artifacts and
\* _update_session_progress log theirs, and the task ends (lines 408-413)
ExecuteSessionDeleted ==
    /\ pc \in {"created", "loop", "artifacts"}
    /\ SessionId \notin DOMAIN active_sessions
    /\ pc' = "done"
    /\ UNCHANGED <<active_sessions, agent_instances, task_queue,
                   legacy_registry, execution_tasks, coroutine,
                   sandbox_cleanups, handoff_vars>>

\* _execute_task once the session has been deleted: a call that has not
\* started raises at line 426; one that is running returns or raises, with
\* an agent that is no longer in agent_instances
ExecuteTaskDeleted(task, outcome) ==
    /\ pc = "gather"
    /\ SessionId \notin DOMAIN active_sessions
    /\ task \in DOMAIN coroutine
    /\ coroutine[task] \notin {"returned", "raised"}
    /\ coroutine[task] = "created" => outcome = "raised"
    /\ coroutine' = [coroutine EXCEPT ![task] = outcome]
    /\ UNCHANGED <<active_sessions, agent_instances, task_queue,
                   legacy_registry, execution_tasks, pc, sandbox_cleanups,
                   handoff_vars>>

\* asyncio.gather returns once the session has been deleted: lines 383-400
\* update objects no dict holds any more, and the loop condition is next
ExecuteSessionGatheredDeleted ==
    /\ pc = "gather"
    /\ SessionId \notin DOMAIN active_sessions
    /\ \A t \in DOMAIN coroutine : coroutine[t] \in {"returned", "raised"}
    /\ pc' = "loop"
    /\ UNCHANGED <<active_sessions, agent_instances, task_queue,
                   legacy_registry, execution_tasks, coroutine,
                   sandbox_cleanups, handoff_vars>>

\* ------------------------------------------------- agent_state_manager.py
\* AgentInstance.current_task of an agent without a task (None)
NoTask == "none"

\* models.py AgentInstance, a fresh one
AgentInstance(id, role) ==
    [id |-> id, role |-> role, state |-> "idle", current_task |-> NoTask,
     completed_tasks |-> << >>, failed_tasks |-> << >>]

\* mutant: Failed counts as available too
is_available_or_failed(agent) == agent.state \in {"idle", "completed", "failed"}

is_available(agent) == agent.state \in {"idle", "completed"}

is_busy(agent) == agent.state \in {"executing", "thinking"}

\* The manager's operations as functions of its two dicts: each returns the
\* dicts after the call, whether the call raised, and the state change it
\* notified to the registered callbacks (NoChange when none).
NoChange == [agent |-> "none", new_state |-> "none"]

Manager(ags, r2a) == [agents |-> ags, role_to_agent |-> r2a]

Raised(mgr) ==
    [raised |-> TRUE, agents |-> mgr.agents,
     role_to_agent |-> mgr.role_to_agent, notified |-> NoChange]

Returned(ags, r2a, change) ==
    [raised |-> FALSE, agents |-> ags, role_to_agent |-> r2a,
     notified |-> change]

\* mutant: the role is not looked up; the role's entry is overwritten
create_agent_any_role(mgr, agent_id, role) ==
    IF agent_id \in DOMAIN mgr.agents THEN Raised(mgr)
    ELSE Returned(mgr.agents @@ (agent_id :> AgentInstance(agent_id, role)),
                  (role :> agent_id) @@ mgr.role_to_agent, NoChange)

create_agent(mgr, agent_id, role) ==
    IF agent_id \in DOMAIN mgr.agents THEN Raised(mgr)
    ELSE IF role \in DOMAIN mgr.role_to_agent THEN Raised(mgr)
    ELSE Returned(mgr.agents @@ (agent_id :> AgentInstance(agent_id, role)),
                  mgr.role_to_agent @@ (role :> agent_id), NoChange)

\* mutant: the availability check is left out
assign_task_unguarded(mgr, agent_id, task) ==
    IF agent_id \notin DOMAIN mgr.agents THEN Raised(mgr)
    ELSE Returned([mgr.agents EXCEPT ![agent_id].current_task = task,
                                     ![agent_id].state = "executing"],
                  mgr.role_to_agent,
                  [agent |-> agent_id, new_state |-> "executing"])

assign_task(mgr, agent_id, task) ==
    IF agent_id \notin DOMAIN mgr.agents THEN Raised(mgr)
    ELSE IF ~is_available(mgr.agents[agent_id]) THEN Raised(mgr)
    ELSE Returned([mgr.agents EXCEPT ![agent_id].current_task = task,
                                     ![agent_id].state = "executing"],
                  mgr.role_to_agent,
                  [agent |-> agent_id, new_state |-> "executing"])

complete_task(mgr, agent_id) ==
    IF agent_id \notin DOMAIN mgr.agents THEN Raised(mgr)
    ELSE IF mgr.agents[agent_id].current_task = NoTask THEN Raised(mgr)
    ELSE Returned([mgr.agents EXCEPT
                        ![agent_id].completed_tasks =
                            Append(@, mgr.agents[agent_id].current_task),
                        ![agent_id].current_task = NoTask,
                        ![agent_id].state = "completed"],
                  mgr.role_to_agent,
                  [agent |-> agent_id, new_state |-> "completed"])

fail_task(mgr, agent_id) ==
    IF agent_id \notin DOMAIN mgr.agents THEN Raised(mgr)
    ELSE IF mgr.agents[agent_id].current_task = NoTask THEN Raised(mgr)
    ELSE Returned([mgr.agents EXCEPT
                        ![agent_id].failed_tasks =
                            Append(@, mgr.agents[agent_id].current_task),
                        ![agent_id].current_task = NoTask,
                        ![agent_id].state = "failed"],
                  mgr.role_to_agent,
                  [agent |-> agent_id, new_state |-> "failed"])

set_agent_state(mgr, agent_id, state) ==
    IF agent_id \notin DOMAIN mgr.agents THEN Raised(mgr)
    ELSE Returned([mgr.agents EXCEPT ![agent_id].state = state],
                  mgr.role_to_agent,
                  [agent |-> agent_id, new_state |-> state])

\* cleanup_inactive_agents; inactive is the set of agents whose last
\* activity is older than the cutoff
\* mutant: the role mapping of a removed agent is kept
cleanup_inactive_agents_keep_roles(mgr, inactive) ==
    Returned([a \in {b \in DOMAIN mgr.agents :
                        ~(/\ b \in inactive
                          /\ mgr.agents[b].state \in
                                {"idle", "completed", "failed"})} |->
                    mgr.agents[a]],
             mgr.role_to_agent, NoChange)

cleanup_inactive_agents(mgr, inactive) ==
    LET removed == {a \in DOMAIN mgr.agents :
                        /\ a \in inactive
                        /\ mgr.agents[a].state \in
                                {"idle", "completed", "failed"}}
        roles == {mgr.agents[a].role : a \in removed}
    IN  Returned([a \in DOMAIN mgr.agents \ removed |-> mgr.agents[a]],
                 [r \in DOMAIN mgr.role_to_agent \ roles |->
                        mgr.role_to_agent[r]],
                 NoChange)

\* _notify_state_change (lines 188-194), from the i-th observer on: every
\* observer is called in turn; one that raises has its exception caught and
\* logged. The value tells which observers were called and whether an
\* exception leaves the method.
\* mutant: the exception of an observer is not caught
RECURSIVE _notify_state_change_uncaught(_, _, _)
_notify_state_change_uncaught(callbacks, i, called) ==
    IF i > Len(callbacks) THEN [raised |-> FALSE, invoked |-> called]
    ELSE IF callbacks[i] = "raises"
         THEN [raised |-> TRUE, invoked |-> Append(called, i)]
         ELSE _notify_state_change_uncaught(callbacks, i + 1,
                                            Append(called, i))

RECURSIVE _notify_state_change(_, _, _)
_notify_state_change(callbacks, i, called) ==
    IF i > Len(callbacks) THEN [raised |-> FALSE, invoked |-> called]
    ELSE \* callbacks[i] is called: it returns, or it raises and the
         \* `except Exception` logs the error; the loop goes on either way
         _notify_state_change(callbacks, i + 1, Append(called, i))

\* __init__ (lines 20-23)
AgentsInit ==
    /\ agents = << >>
    /\ role_to_agent = << >>
    /\ state_change_callbacks = << >>
    /\ invoked = << >>

\* ProcessManager.__init__ (sandbox/process_manager.py, lines 20-23)
ProcessInit ==
    /\ processes = << >>
    /\ start_calls = << >>

OrchInit ==
    /\ sessions = << >>
    /\ execution = << >>
    /\ created = 0

\* ------------------------------------------- orchestration/orchestrator.py
\* metagpt_executor.py get_supported_roles
SupportedRoles == {"product_manager", "architect", "project_manager",
                   "engineer", "qa_engineer"}

\* validate_request: TRUE iff it returns errors (the executor is configured
\* and the requirement has an accepted length)
validate_request(active_agents) ==
    \E i \in DOMAIN active_agents : active_agents[i] \notin SupportedRoles

\* the session ids create_session draws (uuid4), in the order drawn
SessionIds == <<"s1", "s2", "s3", "s4">>

OrchAgentId(session_id, role) == session_id \o "_" \o role

\* _create_tasks_for_request: per role the task's name, priority and the
\* roles whose tasks it waits for
OrchTaskName(role) ==
    CASE role = "product_manager" -> "pm_analysis"
      [] role = "architect" -> "arch_design"
      [] role = "project_manager" -> "proj_plan"
      [] role = "engineer" -> "implementation"
      [] role = "qa_engineer" -> "testing"

OrchTaskPriority(role) ==
    CASE role = "product_manager" -> "high"
      [] role = "architect" -> "high"
      [] role = "project_manager" -> "normal"
      [] role = "engineer" -> "critical"
      [] role = "qa_engineer" -> "high"

OrchTaskDependsOnRoles(role) ==
    CASE role = "product_manager" -> {}
      [] role = "architect" -> {"product_manager"}
      [] role = "project_manager" -> {"architect"}
      [] role = "engineer" -> {"architect", "project_manager"}
      [] role = "qa_engineer" -> {"engineer"}

OrchTaskId(session_id, role) == session_id \o "_" \o OrchTaskName(role)

\* the roles that get a task, in the order the tasks are created
TaskRoles(active_agents) ==
    SelectSeq(AgentRole, LAMBDA r :
        r \in Range(active_agents) /\ r \in SupportedRoles)

_create_tasks_for_request(active_agents, session_id) ==
    LET roles == TaskRoles(active_agents)
    IN  [i \in 1..Len(roles) |->
            [id |-> OrchTaskId(session_id, roles[i]),
             task |-> AgentTask(roles[i], OrchTaskPriority(roles[i]),
                {OrchTaskId(session_id, r) :
                    r \in OrchTaskDependsOnRoles(roles[i])
                          \cap Range(active_agents)},
                DefaultMaxRetries)]]

\* models.py OrchestrationSession
OrchestrationSession(id, status) ==
    [id |-> id, status |-> status, progress |-> 0, agents |-> << >>,
     tasks |-> << >>]

update_progress(session, progress) == [session EXCEPT !.progress = progress]

\* OrchestrationSession.get_agent_by_role: the id of the session's first
\* agent of the role ("none" without one)
get_agent_by_role(session, ags, role) ==
    LET of_role == SelectSeq(session.agents, LAMBDA a :
                        a \in DOMAIN ags /\ ags[a].role = role)
    IN  IF of_role = << >> THEN "none" ELSE Head(of_role)

\* _on_agent_state_change (lines 249-264): the sessions after the callback
\* for a state change of agent_id, ags being the agents after the change
_on_agent_state_change(sess, ags, change) ==
    IF change.agent = "none" THEN sess
    ELSE [sid \in DOMAIN sess |->
            LET session == sess[sid]
            IN  IF get_agent_by_role(session, ags, ags[change.agent].role)
                    # change.agent
                THEN session
                ELSE IF change.new_state = "failed"
                THEN [session EXCEPT !.status = "failed"]
                ELSE IF change.new_state = "completed"
                        /\ \A i \in DOMAIN session.agents :
                            ags[session.agents[i]].state = "completed"
                THEN [session EXCEPT !.status = "completed"]
                ELSE session]

\* the loop `for role in request.active_agents: create_agent(...)`
RECURSIVE CreateAgents(_, _, _, _)
CreateAgents(roles, session_id, mgr, session) ==
    IF roles = << >>
    THEN [raised |-> FALSE, mgr |-> mgr, session |-> session]
    ELSE LET agent_id == OrchAgentId(session_id, Head(roles))
             r == create_agent(mgr, agent_id, Head(roles))
         IN  IF r.raised
             THEN [raised |-> TRUE, mgr |-> mgr, session |-> session]
             ELSE CreateAgents(Tail(roles), session_id,
                    Manager(r.agents, r.role_to_agent),
                    [session EXCEPT !.agents = Append(@, agent_id)])

\* the loop `for task in tasks: self.task_scheduler.add_task(task)`
RECURSIVE AddTasks(_, _)
AddTasks(tasks, sched) ==
    IF tasks = << >> THEN [raised |-> FALSE, sched |-> sched]
    ELSE LET r == add_task_to(sched, Head(tasks).id, Head(tasks).task)
         IN  IF r.raised THEN r ELSE AddTasks(Tail(tasks), r.sched)

\* the loops `for agent in session.agents: set_agent_state(agent.id, state)`,
\* each call followed by the callback; only_busy is cancel_session's filter
RECURSIVE SetAgentStates(_, _, _, _, _)
SetAgentStates(agent_ids, state, only_busy, mgr, sess) ==
    IF agent_ids = << >> THEN [raised |-> FALSE, mgr |-> mgr, sessions |-> sess]
    ELSE LET agent_id == Head(agent_ids)
         IN  IF only_busy /\ ~is_busy(mgr.agents[agent_id])
             THEN SetAgentStates(Tail(agent_ids), state, only_busy, mgr, sess)
             ELSE LET r == set_agent_state(mgr, agent_id, state)
                  IN  IF r.raised
                      THEN [raised |-> TRUE, mgr |-> mgr, sessions |-> sess]
                      ELSE SetAgentStates(Tail(agent_ids), state, only_busy,
                            Manager(r.agents, r.role_to_agent),
                            _on_agent_state_change(sess, r.agents,
                                                   r.notified))

\* ------------------------------------------------------------ Init / Next
SchedInit ==
    /\ task_registry = << >>
    /\ task_registry_keys = << >>
    /\ dependency_graph = << >>
    /\ reverse_dependencies = << >>
    /\ was_completed = {}

\* ---- SpecSched: the scheduler driven through its status operations.  Tasks
\* are registered in creation order and depend on earlier tasks, as
\* _create_tasks_for_request builds them.
InitSched ==
    /\ SchedInit
    /\ LegacyInit
    /\ AgentsInit
    /\ OrchInit
    /\ ProcessInit
    /\ raised = FALSE
    /\ result = NoResult

AddTask ==
    \E id \in 1..(Len(task_registry_keys) + 1), n \in InputMaxRetries :
        \E deps \in SUBSET (1..(id - 1)) :
            /\ id \in TaskIds
            /\ deps \in InputDeps
            /\ add_task(id, AgentTask("engineer", DefaultPriority, deps, n))
            /\ UNCHANGED <<result, legacy_vars, process_vars, agent_vars, orch_vars>>

MarkTaskCompleted ==
    \E id \in TaskIds : mark_task_completed(id) /\ UNCHANGED <<result, legacy_vars, process_vars, agent_vars, orch_vars>>

MarkTaskFailed ==
    \E id \in TaskIds : mark_task_failed(id) /\ UNCHANGED <<result, legacy_vars, process_vars, agent_vars, orch_vars>>

RetryTask ==
    \E id \in TaskIds : retry_task(id) /\ UNCHANGED <<result, legacy_vars, process_vars, agent_vars, orch_vars>>

NextSched ==
    \/ AddTask
    \/ MarkTaskCompleted
    \/ MarkTaskFailed
    \/ RetryTask

SpecSched == InitSched /\ [][NextSched]_vars

\* ---- SpecGraph: the scheduler as a registry that is queried.  add_task is
\* offered any id, any dependency set (registered or not, cyclic or not) and
\* any order of registration.
InitGraph ==
    /\ SchedInit
    /\ LegacyInit
    /\ AgentsInit
    /\ OrchInit
    /\ ProcessInit
    /\ raised = FALSE
    /\ result = NoResult

AddAnyTask ==
    \E id \in TaskIds, deps \in InputDeps, p \in InputPriorities :
        /\ add_task(id, AgentTask("engineer", p, deps, DefaultMaxRetries))
        /\ result' = NoResult
        /\ UNCHANGED <<legacy_vars, process_vars, agent_vars, orch_vars>>

ValidateDependencies ==
    \E iter \in IterOrders :
        /\ result' = [op |-> "validate_dependencies",
                      value |-> validate_dependencies(iter)]
        /\ raised' = FALSE
        /\ UNCHANGED <<sched_vars, legacy_vars, process_vars, agent_vars, orch_vars>>

GetExecutionOrder ==
    \E iter \in IterOrders :
        LET r == get_execution_order(iter)
        IN  /\ result' = [op |-> "get_execution_order", value |-> r.order]
            /\ raised' = r.raised
            /\ UNCHANGED <<sched_vars, legacy_vars, process_vars, agent_vars, orch_vars>>

GetReadyTasks ==
    \E completed_tasks \in SUBSET TaskIds :
        /\ result' = [op |-> "get_ready_tasks", completed |-> completed_tasks,
                      value |-> get_ready_tasks(completed_tasks)]
        /\ raised' = FALSE
        /\ UNCHANGED <<sched_vars, legacy_vars, process_vars, agent_vars, orch_vars>>

NextGraph ==
    \/ AddAnyTask
    \/ ValidateDependencies
    \/ GetExecutionOrder
    \/ GetReadyTasks

SpecGraph == InitGraph /\ [][NextGraph]_vars

\* ---- SpecLegacy: one session of the older orchestrator, from create_session
\* to the end of _execute_session
InitLegacy ==
    /\ SchedInit
    /\ LegacyInit
    /\ AgentsInit
    /\ OrchInit
    /\ ProcessInit
    /\ raised = FALSE
    /\ result = NoResult

CreateSessionLegacy ==
    \E active_agents \in (SUBSET Roles) \ {{}} :
        /\ create_session_legacy(active_agents)
        /\ UNCHANGED <<sched_vars, raised, result, agent_vars, orch_vars,
                     sandbox_cleanups, process_vars>>

LegacyExecuteSessionStart ==
    ExecuteSessionStart /\ UNCHANGED <<sched_vars, raised, result, agent_vars, orch_vars,
                     sandbox_cleanups, process_vars>>

LegacyExecuteSessionLoop ==
    ExecuteSessionLoop /\ UNCHANGED <<sched_vars, raised, result, agent_vars, orch_vars,
                     sandbox_cleanups, process_vars>>

LegacyExecuteTaskStart ==
    \E task \in DOMAIN coroutine :
        ExecuteTaskStart(task) /\ UNCHANGED <<sched_vars, raised, result, agent_vars, orch_vars,
                     sandbox_cleanups, process_vars>>

LegacyExecuteTaskReturn ==
    \E task \in DOMAIN coroutine :
        ExecuteTaskReturn(task) /\ UNCHANGED <<sched_vars, raised, result, agent_vars, orch_vars,
                     sandbox_cleanups, process_vars>>

LegacyExecuteTaskRaise ==
    \E task \in DOMAIN coroutine :
        ExecuteTaskRaise(task) /\ UNCHANGED <<sched_vars, raised, result, agent_vars, orch_vars,
                     sandbox_cleanups, process_vars>>

LegacyExecuteSessionGathered ==
    ExecuteSessionGathered /\ UNCHANGED <<sched_vars, raised, result, agent_vars, orch_vars,
                     sandbox_cleanups, process_vars>>

LegacyExecuteSessionFinalize ==
    ExecuteSessionFinalize /\ UNCHANGED <<sched_vars, raised, result, agent_vars, orch_vars,
                     sandbox_cleanups, process_vars>>

NextLegacy ==
    \/ CreateSessionLegacy
    \/ LegacyExecuteSessionStart
    \/ LegacyExecuteSessionLoop
    \/ LegacyExecuteTaskStart
    \/ LegacyExecuteTaskReturn
    \/ LegacyExecuteTaskRaise
    \/ LegacyExecuteSessionGathered
    \/ LegacyExecuteSessionFinalize

SpecLegacy == InitLegacy /\ [][NextLegacy]_vars

\* SpecLegacy with the event loop running the background task whenever it
\* can go on, and every _execute_agent_task call settling
ExecutionSteps ==
    \/ LegacyExecuteSessionStart
    \/ LegacyExecuteSessionLoop
    \/ LegacyExecuteTaskStart
    \/ LegacyExecuteTaskReturn
    \/ LegacyExecuteTaskRaise
    \/ LegacyExecuteSessionGathered
    \/ LegacyExecuteSessionFinalize

FairSpecLegacy == SpecLegacy /\ WF_vars(ExecutionSteps)

\* ---- SpecTerminate: the session of SpecLegacy, which terminate_session may
\* delete at any moment and _delayed_cleanup deletes after its end
InitTerminate ==
    /\ SchedInit
    /\ LegacyInit
    /\ AgentsInit
    /\ OrchInit
    /\ ProcessInit
    /\ raised = FALSE
    /\ result = NoResult

Others == <<sched_vars, raised, result, agent_vars, orch_vars, process_vars>>

Present == SessionId \in DOMAIN active_sessions

TerminateSession == terminate_session /\ UNCHANGED Others

DelayedCleanup == _delayed_cleanup /\ UNCHANGED Others

DeletedExecuteSession == ExecuteSessionDeleted /\ UNCHANGED Others

DeletedExecuteTask ==
    \E task \in DOMAIN coroutine, outcome \in {"returned", "raised"} :
        ExecuteTaskDeleted(task, outcome) /\ UNCHANGED Others

DeletedExecuteSessionGathered ==
    ExecuteSessionGatheredDeleted /\ UNCHANGED Others

NextTerminate ==
    \/ CreateSessionLegacy
    \/ Present /\ LegacyExecuteSessionStart
    \/ Present /\ LegacyExecuteSessionLoop
    \/ Present /\ LegacyExecuteTaskStart
    \/ Present /\ LegacyExecuteTaskReturn
    \/ Present /\ LegacyExecuteTaskRaise
    \/ Present /\ LegacyExecuteSessionGathered
    \/ Present /\ LegacyExecuteSessionFinalize
    \/ TerminateSession
    \/ DelayedCleanup
    \/ DeletedExecuteSession
    \/ DeletedExecuteTask
    \/ DeletedExecuteSessionGathered

SpecTerminate == InitTerminate /\ [][NextTerminate]_vars

\* ---- SpecAgents: an AgentStateManager of its own, driven through its
\* public operations. A task is handed to the agent registered for the task's
\* role (get_agent_by_role), and set_agent_state is called with the states
\* the orchestrator passes to it.
MaxHistory == 2

AgentIds == {"agent1", "agent2"}
AgentsRoles == {"engineer", "qa_engineer"}
AgentsTasks == {"task1", "task2", "task3"}
AgentsTaskRole(task) == IF task = "task3" THEN "qa_engineer" ELSE "engineer"
SetStates == {"completed", "failed", "terminated"}

InitAgents ==
    /\ SchedInit
    /\ LegacyInit
    /\ AgentsInit
    /\ OrchInit
    /\ ProcessInit
    /\ raised = FALSE
    /\ result = NoResult

ManagerCall(op, agent_id, r) ==
    /\ agents' = r.agents
    /\ role_to_agent' = r.role_to_agent
    /\ UNCHANGED callback_vars
    /\ raised' = r.raised
    /\ result' = [op |-> op, agent |-> agent_id]
    /\ UNCHANGED <<sched_vars, legacy_vars, process_vars, orch_vars>>

CreateAgent ==
    \E agent_id \in AgentIds, role \in AgentsRoles :
        ManagerCall("create_agent", agent_id,
            create_agent(Manager(agents, role_to_agent), agent_id, role))

AssignTask ==
    \E agent_id \in AgentIds, task \in AgentsTasks :
        /\ agent_id \in DOMAIN agents =>
            /\ agents[agent_id].role = AgentsTaskRole(task)
            /\ Len(agents[agent_id].completed_tasks)
                + Len(agents[agent_id].failed_tasks) < MaxHistory
        /\ ManagerCall("assign_task", agent_id,
            assign_task(Manager(agents, role_to_agent), agent_id, task))

CompleteTask ==
    \E agent_id \in AgentIds :
        ManagerCall("complete_task", agent_id,
            complete_task(Manager(agents, role_to_agent), agent_id))

FailTask ==
    \E agent_id \in AgentIds :
        ManagerCall("fail_task", agent_id,
            fail_task(Manager(agents, role_to_agent), agent_id))

SetAgentState ==
    \E agent_id \in AgentIds, state \in SetStates :
        ManagerCall("set_agent_state", agent_id,
            set_agent_state(Manager(agents, role_to_agent), agent_id, state))

\* the result's value is the returned list of removed agent ids
CleanupInactiveAgents ==
    \E inactive \in SUBSET AgentIds :
        LET r == cleanup_inactive_agents(Manager(agents, role_to_agent),
                                         inactive)
        IN  /\ agents' = r.agents
            /\ role_to_agent' = r.role_to_agent
            /\ UNCHANGED callback_vars
            /\ raised' = r.raised
            /\ result' = [op |-> "cleanup_inactive_agents", agent |-> "none",
                          value |-> (DOMAIN agents) \ (DOMAIN r.agents)]
            /\ UNCHANGED <<sched_vars, legacy_vars, process_vars, orch_vars>>

NextAgents ==
    \/ CreateAgent
    \/ AssignTask
    \/ CompleteTask
    \/ FailTask
    \/ SetAgentState
    \/ CleanupInactiveAgents

SpecAgents == InitAgents /\ [][NextAgents]_vars

\* ---- SpecNotify: one agent of an AgentStateManager on which observers,
\* some of which raise, are registered with add_state_change_callback
MaxCallbacks == 2

\* what an observer does when it is called
Observers == {"returns", "raises"}

NotifyAgentId == "agent1"
NotifyTasks == {"task1", "task2"}

InitNotify ==
    /\ SchedInit
    /\ LegacyInit
    /\ AgentsInit
    /\ OrchInit
    /\ ProcessInit
    /\ raised = FALSE
    /\ result = NoResult

\* add_state_change_callback (lines 184-186)
add_state_change_callback(callback) ==
    /\ state_change_callbacks' = Append(state_change_callbacks, callback)
    /\ UNCHANGED <<agents, role_to_agent, invoked>>

\* a manager call with its observers: r is what the method does up to its
\* _notify_state_change call, which comes after the agent has been updated
NotifiedCall(op, arg, r) ==
    LET n == IF r.raised \/ r.notified = NoChange
             THEN [raised |-> r.raised, invoked |-> << >>]
             ELSE _notify_state_change(state_change_callbacks, 1, << >>)
    IN  /\ agents' = r.agents
        /\ role_to_agent' = r.role_to_agent
        /\ invoked' = n.invoked
        /\ raised' = n.raised
        /\ result' = [op |-> op, agent |-> NotifyAgentId, arg |-> arg]
        /\ UNCHANGED <<state_change_callbacks, sched_vars, legacy_vars, process_vars,
                       orch_vars>>

AddStateChangeCallback ==
    \E callback \in Observers :
        /\ Len(state_change_callbacks) < MaxCallbacks
        /\ add_state_change_callback(callback)
        /\ raised' = FALSE
        /\ result' = NoResult
        /\ UNCHANGED <<sched_vars, legacy_vars, process_vars, orch_vars>>

NotifyCreateAgent ==
    NotifiedCall("create_agent", "engineer",
        create_agent(Manager(agents, role_to_agent), NotifyAgentId,
                     "engineer"))

NotifyAssignTask ==
    \E task \in NotifyTasks :
        /\ NotifyAgentId \in DOMAIN agents =>
            Len(agents[NotifyAgentId].completed_tasks)
                + Len(agents[NotifyAgentId].failed_tasks) < MaxHistory
        /\ NotifiedCall("assign_task", task,
                assign_task(Manager(agents, role_to_agent), NotifyAgentId,
                            task))

NotifyCompleteTask ==
    NotifiedCall("complete_task", "none",
        complete_task(Manager(agents, role_to_agent), NotifyAgentId))

NotifyFailTask ==
    NotifiedCall("fail_task", "none",
        fail_task(Manager(agents, role_to_agent), NotifyAgentId))

NotifySetAgentState ==
    \E state \in SetStates :
        NotifiedCall("set_agent_state", state,
            set_agent_state(Manager(agents, role_to_agent), NotifyAgentId,
                            state))

NextNotify ==
    \/ AddStateChangeCallback
    \/ NotifyCreateAgent
    \/ NotifyAssignTask
    \/ NotifyCompleteTask
    \/ NotifyFailTask
    \/ NotifySetAgentState

SpecNotify == InitNotify /\ [][NextNotify]_vars

\* ---- SpecProcess: a ProcessManager whose callers start processes, stop
\* them and clean up old ones; start_process is a coroutine that other calls
\* interleave with while it sleeps
MaxProcesses == 2

\* process ids (uuid4 in the code), in the order they are drawn
ProcessIds == <<"p1", "p2", "p3">>

\* commands, as their words
Commands == {<<"npm", "start">>, <<"yarn", "start">>, <<"python", "app.py">>,
             <<"npm", "run", "build">>, <<"sleep", "10">>}

\* `phrase in command` on the words of the command
Contains(command, phrase) ==
    \E i \in 1..(Len(command) - Len(phrase) + 1) :
        SubSeq(command, i, i + Len(phrase) - 1) = phrase

\* the _simulate_* method _execute_process picks (lines 69-76)
Simulation(command) ==
    IF Contains(command, <<"npm", "start">>)
       \/ Contains(command, <<"yarn", "start">>) THEN "dev_server"
    ELSE IF Contains(command, <<"python">>) THEN "python_execution"
    ELSE IF Contains(command, <<"build">>) THEN "build_process"
    ELSE "generic_process"

NoExitCode == 99

\* ProcessInfo (sandbox/models.py, lines 30-41)
ProcessInfo(command) ==
    [command |-> command, state |-> "starting", exit_code |-> NoExitCode]

\* start_process up to the first await of the simulation (lines 32-46 and
\* 62-66): the process is registered and set Running
start_process_begin(command) ==
    LET process_id == ProcessIds[Cardinality(DOMAIN start_calls) + 1]
    IN  /\ processes' = (process_id :>
                [ProcessInfo(command) EXCEPT !.state = "running"])
                    @@ processes
        /\ start_calls' = (process_id :> "simulating") @@ start_calls

\* the simulation ends and start_process returns the id (lines 85-140, 48-49):
\* all simulations but the development server's set the process Completed,
\* whatever its state has become meanwhile
start_process_end(process_id) ==
    /\ process_id \in DOMAIN start_calls
    /\ start_calls[process_id] = "simulating"
    /\ start_calls' = [start_calls EXCEPT ![process_id] = "returned"]
    /\ processes' =
        IF process_id \notin DOMAIN processes
        THEN processes   \* cleaned up meanwhile: the object is in no dict
        ELSE IF Simulation(processes[process_id].command) = "dev_server"
        THEN processes
        ELSE [processes EXCEPT ![process_id].state = "completed",
                               ![process_id].exit_code = 0]

\* stop_process (lines 142-163)
stop_process(process_id) ==
    IF process_id \notin DOMAIN processes
    THEN /\ result' = [op |-> "stop_process", process |-> process_id,
                       value |-> FALSE]
         /\ UNCHANGED processes
    ELSE IF processes[process_id].state # "running"
    THEN /\ result' = [op |-> "stop_process", process |-> process_id,
                       value |-> FALSE]
         /\ UNCHANGED processes
    ELSE /\ processes' = [processes EXCEPT ![process_id].state = "killed",
                                           ![process_id].exit_code = -1]
         /\ result' = [op |-> "stop_process", process |-> process_id,
                       value |-> TRUE]

\* cleanup_completed_processes (lines 208-224); old is the set of processes
\* whose completed_at is before the cutoff
cleanup_completed_processes(old) ==
    processes' = Without(processes,
        {p \in old \cap DOMAIN processes :
            processes[p].state \in {"completed", "failed", "killed"}})

InitProcess ==
    /\ SchedInit
    /\ LegacyInit
    /\ AgentsInit
    /\ OrchInit
    /\ ProcessInit
    /\ raised = FALSE
    /\ result = NoResult

NotProcess == <<sched_vars, legacy_vars, agent_vars, orch_vars>>

StartProcess ==
    \E command \in Commands :
        /\ Cardinality(DOMAIN start_calls) < MaxProcesses
        /\ start_process_begin(command)
        /\ raised' = FALSE
        /\ result' = NoResult
        /\ UNCHANGED NotProcess

StartProcessReturn ==
    \E process_id \in DOMAIN start_calls :
        /\ start_process_end(process_id)
        /\ raised' = FALSE
        /\ result' = [op |-> "start_process", process |-> process_id,
                      value |-> TRUE]
        /\ UNCHANGED NotProcess

StopProcess ==
    \E n \in 1..(MaxProcesses + 1) :
        /\ stop_process(ProcessIds[n])
        /\ raised' = FALSE
        /\ UNCHANGED <<start_calls, NotProcess>>

CleanupCompletedProcesses ==
    \E old \in SUBSET DOMAIN processes :
        /\ cleanup_completed_processes(old)
        /\ raised' = FALSE
        /\ result' = NoResult
        /\ UNCHANGED <<start_calls, NotProcess>>

NextProcess ==
    \/ StartProcess
    \/ StartProcessReturn
    \/ StopProcess
    \/ CleanupCompletedProcesses

SpecProcess == InitProcess /\ [][NextProcess]_vars

\* ---- SpecOrch: the orchestrator of orchestration/orchestrator.py with its
\* one scheduler and one agent manager: sessions are created, run in the
\* background and are cancelled, while other callers use the scheduler and
\* the agent manager it exposes.
MaxSessions == 2

\* the active_agents lists of the requests
Requests == {<<"product_manager">>, <<"architect">>,
             <<"product_manager", "architect">>, <<"devops">>}

\* the task another caller registers with the scheduler, and what it may
\* name as its dependencies
ExternalTasks == {"task1"}
ExternalDeps == SUBSET {"task1", "task2"}

\* two orders in which Python may iterate a set of task ids: one order of all
\* ids, and its reverse
Reverse(s) == [i \in 1..Len(s) |-> s[Len(s) + 1 - i]]

RECURSIVE AllTaskIds(_)
AllTaskIds(n) ==
    IF n = 0 THEN <<"task1", "task2">>
    ELSE AllTaskIds(n - 1)
         \o LET roles == SelectSeq(AgentRole, LAMBDA r : r \in SupportedRoles)
            IN  [i \in DOMAIN roles |-> OrchTaskId(SessionIds[n], roles[i])]

OrchIterOrders == {AllTaskIds(Len(SessionIds)), Reverse(AllTaskIds(Len(SessionIds)))}

Terminal == {"completed", "failed", "cancelled"}

InitOrch ==
    /\ SchedInit
    /\ LegacyInit
    /\ AgentsInit
    /\ OrchInit
    /\ ProcessInit
    /\ raised = FALSE
    /\ result = NoResult

SetScheduler(sched) ==
    /\ task_registry' = sched.task_registry
    /\ task_registry_keys' = sched.task_registry_keys
    /\ dependency_graph' = sched.dependency_graph
    /\ reverse_dependencies' = sched.reverse_dependencies
    /\ UNCHANGED was_completed

SetManager(mgr) ==
    /\ agents' = mgr.agents
    /\ role_to_agent' = mgr.role_to_agent
    /\ UNCHANGED callback_vars

\* create_session (lines 54-115)
create_session(active_agents, iter) ==
    LET session_id == SessionIds[created + 1]
        session == OrchestrationSession(session_id, "initializing")
        a == CreateAgents(active_agents, session_id,
                          Manager(agents, role_to_agent), session)
        tasks == _create_tasks_for_request(active_agents, session_id)
        t == AddTasks(tasks, Scheduler(task_registry, task_registry_keys,
                                dependency_graph, reverse_dependencies))
        validation_errors ==
            ValidateGraph(t.sched.task_registry_keys,
                          t.sched.dependency_graph, iter)
    IN  /\ created' = created + 1
        /\ result' = [op |-> "create_session", session |-> session_id]
        /\ IF validate_request(active_agents)
           THEN /\ raised' = TRUE
                /\ UNCHANGED <<sched_vars, agent_vars, sessions, execution>>
           ELSE IF a.raised
           THEN /\ raised' = TRUE
                /\ SetManager(a.mgr)
                /\ UNCHANGED <<sched_vars, sessions, execution>>
           ELSE IF t.raised
           THEN /\ raised' = TRUE
                /\ SetManager(a.mgr)
                /\ SetScheduler(t.sched)
                /\ UNCHANGED <<sessions, execution>>
           ELSE IF validation_errors # << >>
           THEN /\ raised' = TRUE
                /\ SetManager(a.mgr)
                /\ SetScheduler(t.sched)
                /\ UNCHANGED <<sessions, execution>>
           ELSE /\ raised' = FALSE
                /\ SetManager(a.mgr)
                /\ SetScheduler(t.sched)
                /\ sessions' = sessions @@ (session_id :>
                        [a.session EXCEPT
                            !.tasks = [i \in DOMAIN tasks |-> tasks[i].id]])
                /\ execution' = execution @@ (session_id :> "created")

\* _execute_session up to the point where execute_generation waits for
\* run_project (orchestrator.py 198-205, metagpt_executor.py 121-167)
_execute_session_start(session_id) ==
    /\ execution[session_id] = "created"
    /\ sessions' = [sessions EXCEPT ![session_id] =
            update_progress(update_progress(update_progress(
                [@ EXCEPT !.status = "running"], 5), 10), 20)]
    /\ execution' = [execution EXCEPT ![session_id] = "run_project"]
    /\ UNCHANGED <<sched_vars, agent_vars, created>>

\* run_project has returned (metagpt_executor.py 169-173)
_execute_session_results(session_id) ==
    /\ execution[session_id] = "run_project"
    /\ sessions' = [sessions EXCEPT ![session_id] = update_progress(@, 90)]
    /\ execution' = [execution EXCEPT ![session_id] = "results"]
    /\ UNCHANGED <<sched_vars, agent_vars, created>>

\* execute_generation has returned (orchestrator.py 207-231)
_execute_session_completed(session_id) ==
    /\ execution[session_id] = "results"
    /\ LET done == [sessions EXCEPT ![session_id] =
                        update_progress([@ EXCEPT !.status = "completed"], 100)]
           r == SetAgentStates(sessions[session_id].agents, "completed", FALSE,
                               Manager(agents, role_to_agent), done)
       IN  /\ sessions' = r.sessions
           /\ SetManager(r.mgr)
    /\ execution' = [execution EXCEPT ![session_id] = "done"]
    /\ UNCHANGED <<sched_vars, created>>

\* execute_generation has raised (orchestrator.py 233-240)
_execute_session_failed(session_id) ==
    /\ execution[session_id] \in {"created", "run_project", "results"}
    /\ LET done == [sessions EXCEPT ![session_id] =
                        update_progress([@ EXCEPT !.status = "failed"], 0)]
           r == SetAgentStates(sessions[session_id].agents, "failed", FALSE,
                               Manager(agents, role_to_agent), done)
       IN  /\ sessions' = r.sessions
           /\ SetManager(r.mgr)
    /\ execution' = [execution EXCEPT ![session_id] = "done"]
    /\ UNCHANGED <<sched_vars, created>>

\* cancel_session (lines 301-319)
\* mutant: a session that has ended is cancelled like a running one
cancel_session_any_status(session_id) ==
    IF session_id \notin DOMAIN sessions
    THEN /\ result' = [op |-> "cancel_session", session |-> session_id,
                       value |-> FALSE]
         /\ UNCHANGED <<sessions, agent_vars>>
    ELSE LET cancelled == [sessions EXCEPT ![session_id] =
                        update_progress([@ EXCEPT !.status = "cancelled"], 0)]
             r == SetAgentStates(sessions[session_id].agents, "terminated",
                        TRUE, Manager(agents, role_to_agent), cancelled)
         IN  /\ sessions' = r.sessions
             /\ SetManager(r.mgr)
             /\ result' = [op |-> "cancel_session", session |-> session_id,
                           value |-> TRUE]

cancel_session(session_id) ==
    IF session_id \notin DOMAIN sessions
    THEN /\ result' = [op |-> "cancel_session", session |-> session_id,
                       value |-> FALSE]
         /\ UNCHANGED <<sessions, agent_vars>>
    ELSE IF sessions[session_id].status \in {"completed", "failed", "cancelled"}
    THEN /\ result' = [op |-> "cancel_session", session |-> session_id,
                       value |-> FALSE]
         /\ UNCHANGED <<sessions, agent_vars>>
    ELSE LET cancelled == [sessions EXCEPT ![session_id] =
                        update_progress([@ EXCEPT !.status = "cancelled"], 0)]
             r == SetAgentStates(sessions[session_id].agents, "terminated",
                        TRUE, Manager(agents, role_to_agent), cancelled)
         IN  /\ sessions' = r.sessions
             /\ SetManager(r.mgr)
             /\ result' = [op |-> "cancel_session", session |-> session_id,
                           value |-> TRUE]

CreateSession ==
    \E active_agents \in Requests, iter \in OrchIterOrders :
        /\ created < MaxSessions
        /\ create_session(active_agents, iter)
        /\ UNCHANGED <<legacy_vars, process_vars>>

ExecuteSessionRun ==
    \E session_id \in DOMAIN execution :
        /\ _execute_session_start(session_id)
        /\ raised' = FALSE
        /\ result' = NoResult
        /\ UNCHANGED <<legacy_vars, process_vars>>

ExecuteSessionResults ==
    \E session_id \in DOMAIN execution :
        /\ _execute_session_results(session_id)
        /\ raised' = FALSE
        /\ result' = NoResult
        /\ UNCHANGED <<legacy_vars, process_vars>>

ExecuteSessionCompleted ==
    \E session_id \in DOMAIN execution :
        /\ _execute_session_completed(session_id)
        /\ raised' = FALSE
        /\ result' = NoResult
        /\ UNCHANGED <<legacy_vars, process_vars>>

ExecuteSessionFailed ==
    \E session_id \in DOMAIN execution :
        /\ _execute_session_failed(session_id)
        /\ raised' = FALSE
        /\ result' = NoResult
        /\ UNCHANGED <<legacy_vars, process_vars>>

CancelSession ==
    \E n \in 1..MaxSessions :
        /\ cancel_session(SessionIds[n])
        /\ raised' = FALSE
        /\ UNCHANGED <<sched_vars, execution, created, legacy_vars, process_vars>>

\* another caller registers a task with the orchestrator's scheduler
SchedulerAddTask ==
    \E id \in ExternalTasks, deps \in ExternalDeps :
        /\ add_task(id, AgentTask("engineer", DefaultPriority, deps,
                                  DefaultMaxRetries))
        /\ result' = NoResult
        /\ UNCHANGED <<agent_vars, orch_vars, legacy_vars, process_vars>>

\* a call of the orchestrator's agent manager, with the callback it triggers
OrchManagerCall(r) ==
    /\ SetManager(r)
    /\ sessions' = _on_agent_state_change(sessions, r.agents, r.notified)
    /\ raised' = r.raised
    /\ result' = NoResult
    /\ UNCHANGED <<sched_vars, execution, created, legacy_vars, process_vars>>

\* another caller hands a session's agent a task of its role
ManagerAssignTask ==
    \E agent_id \in DOMAIN agents, task \in DOMAIN task_registry :
        /\ \E session_id \in DOMAIN sessions :
                /\ agent_id \in Range(sessions[session_id].agents)
                /\ task \in Range(sessions[session_id].tasks)
        /\ task_registry[task].agent_role = agents[agent_id].role
        /\ Len(agents[agent_id].completed_tasks)
            + Len(agents[agent_id].failed_tasks) < MaxHistory
        /\ OrchManagerCall(
            assign_task(Manager(agents, role_to_agent), agent_id, task))

ManagerCompleteTask ==
    \E agent_id \in DOMAIN agents :
        OrchManagerCall(
            complete_task(Manager(agents, role_to_agent), agent_id))

ManagerFailTask ==
    \E agent_id \in DOMAIN agents :
        OrchManagerCall(
            fail_task(Manager(agents, role_to_agent), agent_id))

NextOrch ==
    \/ CreateSession
    \/ ExecuteSessionRun
    \/ ExecuteSessionResults
    \/ ExecuteSessionCompleted
    \/ ExecuteSessionFailed
    \/ CancelSession
    \/ SchedulerAddTask
    \/ ManagerAssignTask
    \/ ManagerCompleteTask
    \/ ManagerFailTask

SpecOrch == InitOrch /\ [][NextOrch]_vars


\* ------------------------------------------------------------------ claims
\* what the claims say about a dependency graph, stated without the code
RECURSIVE Closure(_, _)
Closure(graph, S) ==
    LET T == S \cup UNION {Neighbors(graph, x) : x \in S}
    IN  IF T = S THEN S ELSE Closure(graph, T)

\* every id t depends on, directly or transitively
TransitiveDeps(graph, t) == Closure(graph, Neighbors(graph, t))

IsCyclic(graph) == \E t \in DOMAIN graph : t \in TransitiveDeps(graph, t)

AllDepsRegistered(graph) == \A t \in DOMAIN graph : graph[t] \subseteq DOMAIN graph

\* the position of id t in the sequence order (0 when absent)
PositionIn(order, t) ==
    IF t \in Range(order) THEN CHOOSE i \in DOMAIN order : order[i] = t ELSE 0

\* C7: for an acyclic task set whose dependencies are all registered,
\* get_execution_order() returns without raising and the returned list places
\* every task after each of the tasks it depends on.
C7_TopologicalOrder ==
    (/\ result.op = "get_execution_order"
     /\ ~IsCyclic(dependency_graph)
     /\ AllDepsRegistered(dependency_graph))
    => /\ ~raised
       /\ \A t \in DOMAIN task_registry : \A d \in dependency_graph[t] :
            /\ PositionIn(result.value, t) > 0
            /\ PositionIn(result.value, d) > 0
            /\ PositionIn(result.value, d) < PositionIn(result.value, t)

\* C7 witness: three registered tasks, the last one registered is a dependency
\* of the two others, one of which also depends on the other, and an order
\* has been returned.
C7_Witness ==
    /\ result.op = "get_execution_order"
    /\ ~raised
    /\ Len(result.value) = 3
    /\ ~IsCyclic(dependency_graph)
    /\ AllDepsRegistered(dependency_graph)
    /\ \E a, b, c \in DOMAIN task_registry :
        /\ task_registry_keys = <<a, b, c>>
        /\ dependency_graph[c] = {}
        /\ dependency_graph[b] = {c}
        /\ dependency_graph[a] = {b, c}


\* C4: a task with max_retries = N never has retry_count above N; its
\* retry_count never decreases and every Failed -> Pending step raises it by
\* one, so there are at most N such steps; once it is Failed with
\* retry_count = N, can_retry() is false, retry_task raises and changes
\* nothing, and no mark_task_failed or retry_task call moves it out of Failed.
C4_RetryBound ==
    [][\A t \in DOMAIN task_registry :
        LET old == task_registry[t]
            new == task_registry'[t]
        IN  /\ new.max_retries = old.max_retries
            /\ new.retry_count <= new.max_retries
            /\ new.retry_count >= old.retry_count
            /\ (old.status = "failed" /\ new.status = "pending")
                    => new.retry_count = old.retry_count + 1
            /\ (old.status = "failed" /\ old.retry_count = old.max_retries)
                    => /\ ~can_retry(old)
                       /\ ~can_retry_task(t)
                       /\ retry_task(t) => (raised' /\ new = old)
                       /\ new.status # "completed"
                            => (new.status = "failed"
                                /\ new.retry_count = old.max_retries)
    ]_vars

\* C4 witness: a task with a positive budget is Failed with the budget used
\* up, and the call just made (a retry_task on it among them) raised.
C4_Witness ==
    \E t \in DOMAIN task_registry :
        /\ task_registry[t].max_retries >= 1
        /\ task_registry[t].status = "failed"
        /\ task_registry[t].retry_count = task_registry[t].max_retries
        /\ raised

\* C6 (as claimed): a task that has been Completed is in no get_ready_tasks()
\* result, whatever completed set is passed.
C6_CompletedNeverReady ==
    \A t \in was_completed : \A completed_tasks \in SUBSET TaskIds :
        t \notin Range(get_ready_tasks(completed_tasks))

\* ---- the older orchestrator's tasks carry no status field; the status is
\* read off the fields _execute_session and _execute_task set
LegacyStatus(task) ==
    IF task.completed_at THEN "completed"
    ELSE IF task.error THEN "failed"
    ELSE IF task.started_at THEN "running"
    ELSE "pending"

\* a task is dispatched once it has left the session's queue for a batch
Dispatched(t) ==
    /\ t \in DOMAIN legacy_registry
    /\ SessionId \in DOMAIN task_queue
    /\ t \notin Range(task_queue[SessionId])

DependenciesCompleted(t) ==
    \A d \in legacy_registry[t].dependencies :
        /\ d \in DOMAIN legacy_registry
        /\ LegacyStatus(legacy_registry[d]) = "completed"

\* C1: a task is dispatched only when every one of its dependencies is
\* Completed at that moment: in every step in which a task leaves the queue
\* for a batch, and in every step in which its agent starts on it, all of its
\* dependencies are Completed before the step, and a dispatched task's
\* dependencies stay Completed ever after.
C1_DispatchAfterDependencies ==
    [][\A t \in DOMAIN legacy_registry' :
          /\ (Dispatched(t)' /\ ~Dispatched(t)) => DependenciesCompleted(t)
          /\ (legacy_registry'[t].started_at
              /\ ~legacy_registry[t].started_at) => DependenciesCompleted(t)
          /\ Dispatched(t) => DependenciesCompleted(t)']_vars

\* the engineer's task, which waits for two others, has been started by its
\* agent after both were completed
C1_Witness ==
    /\ "eng_implementation" \in DOMAIN legacy_registry
    /\ legacy_registry["eng_implementation"].started_at
    /\ Cardinality(legacy_registry["eng_implementation"].dependencies) = 2
    /\ DependenciesCompleted("eng_implementation")
    /\ agent_instances["engineer"].current_task = "eng_implementation"

\* C8: when the run of a session has ended, the session is Completed exactly
\* if every one of its tasks is Completed, and it is Failed if any task ended
\* Failed (or was never run).
C8_StatusReflectsTasks ==
    pc = "done" =>
        LET data == active_sessions[SessionId]
            AllCompleted == \A t \in Range(data.tasks) :
                LegacyStatus(legacy_registry[t]) = "completed"
        IN  /\ data.status = "completed" <=> AllCompleted
            /\ ~AllCompleted => data.status = "failed"

\* C5: once a task has failed with its retry budget exhausted, every task
\* that depends on it, directly or transitively, is Cancelled.
C5_CascadeCancellation ==
    \A x \in DOMAIN task_registry :
        (is_failed(task_registry[x]) /\ ~can_retry(task_registry[x])) =>
            \A t \in DOMAIN task_registry :
                x \in TransitiveDeps(dependency_graph, t) =>
                    task_registry[t].status = "cancelled"

\* a task is Running while an agent in state Executing holds it
RunningTasks(role) ==
    {agents[a].current_task : a \in {b \in DOMAIN agents :
        /\ agents[b].state = "executing"
        /\ agents[b].current_task # NoTask
        /\ AgentsTaskRole(agents[b].current_task) = role}}

ExecutingAgents(role) ==
    {a \in DOMAIN agents :
        agents[a].role = role /\ agents[a].state = "executing"}

C3_CycleRefused ==
    [][/\ (result'.op = "create_session" /\ IsCyclic(dependency_graph')) =>
            /\ \A iter \in OrchIterOrders :
                    ValidateGraph(task_registry_keys', dependency_graph',
                                  iter) # << >>
            /\ raised'
            /\ sessions' = sessions
            /\ execution' = execution
       /\ DOMAIN execution' \subseteq DOMAIN sessions']_vars

\* a create_session call that got as far as registering its tasks has been
\* refused because the scheduler holds a task that depends on itself
C3_Witness ==
    /\ result.op = "create_session"
    /\ raised
    /\ IsCyclic(dependency_graph)
    /\ AllDepsRegistered(dependency_graph)
    /\ result.session \notin DOMAIN sessions
    /\ \E role \in SupportedRoles :
            OrchTaskId(result.session, role) \in DOMAIN task_registry

\* C9: a cancel_session call on a running session sets the session's status
\* to Cancelled, moves each of its Executing agents to Terminated and changes
\* each of its Pending tasks to Cancelled.
C9_CancelSession ==
    [][\A sid \in DOMAIN sessions :
          (/\ result'.op = "cancel_session"
           /\ result'.session = sid
           /\ sessions[sid].status = "running") =>
                /\ sessions'[sid].status = "cancelled"
                /\ \A a \in Range(sessions[sid].agents) :
                        agents[a].state = "executing" =>
                            agents'[a].state = "terminated"
                /\ \A t \in Range(sessions[sid].tasks) :
                        task_registry[t].status = "pending" =>
                            task_registry'[t].status = "cancelled"]_vars

\* C10: once a session's status is Completed, Failed or Cancelled, no step
\* changes it.
C10_TerminalAbsorbing ==
    [][\A sid \in DOMAIN sessions :
          sessions[sid].status \in Terminal =>
                sessions'[sid].status = sessions[sid].status]_vars

\* C11: when the task an agent is running fails while the session is Running
\* and another task of the session that does not depend on the failed one is
\* still Pending, the session stays Running.
C11_FailureContained ==
    [][\A sid \in DOMAIN sessions : \A a \in Range(sessions[sid].agents) :
          (/\ agents[a].current_task # NoTask
           /\ agents'[a].failed_tasks =
                Append(agents[a].failed_tasks, agents[a].current_task)
           /\ sessions[sid].status = "running"
           /\ \E t \in Range(sessions[sid].tasks) :
                /\ t # agents[a].current_task
                /\ task_registry[t].status = "pending"
                /\ agents[a].current_task
                        \notin TransitiveDeps(dependency_graph, t))
          => sessions'[sid].status = "running"]_vars

\* C12: the progress of a session never decreases from one step to the next.
C12_ProgressMonotonic ==
    [][\A sid \in DOMAIN sessions :
          sessions'[sid].progress >= sessions[sid].progress]_vars

\* C13: sessions share nothing: a create_session call whose request is valid,
\* made while the tasks registered so far form a valid graph, succeeds whatever
\* roles the other sessions hold.
C13_SessionsIndependent ==
    [][\A active_agents \in Requests : \A iter \in OrchIterOrders :
          (/\ create_session(active_agents, iter)
           /\ ~validate_request(active_agents)
           /\ AllDepsRegistered(dependency_graph)
           /\ ~IsCyclic(dependency_graph))
          => ~raised']_vars

\* the tasks that qualify for get_ready_tasks(completed_tasks)
Qualifying(completed_tasks) ==
    {t \in DOMAIN task_registry :
        /\ task_registry[t].status = "pending"
        /\ dependency_graph[t] \subseteq completed_tasks}

C15_PriorityThenCreation ==
    result.op = "get_ready_tasks" =>
        \A i, j \in DOMAIN result.value :
            i < j =>
                LET pi == _priority_value(task_registry[result.value[i]].priority)
                    pj == _priority_value(task_registry[result.value[j]].priority)
                IN  \/ pi > pj
                    \/ (pi = pj /\ result.value[i] < result.value[j])

AgentsOfRole(ags, role) == {a \in DOMAIN ags : ags[a].role = role}

\* C16: there is never more than one agent per role, and a create_agent call
\* for an agent id or a role that already has an instance raises and leaves
\* agents and role_to_agent as they were.
C16_OneAgentPerRole ==
    [][/\ \A role \in AgentsRoles :
            Cardinality(AgentsOfRole(agents', role)) <= 1
       /\ \A agent_id \in AgentIds : \A role \in AgentsRoles :
            (agent_id \in DOMAIN agents \/ AgentsOfRole(agents, role) # {}) =>
                LET r == create_agent(Manager(agents, role_to_agent),
                                      agent_id, role)
                IN  /\ r.raised
                    /\ r.agents = agents
                    /\ r.role_to_agent = role_to_agent
       /\ (result'.op = "create_agent" /\ raised') => UNCHANGED agent_vars]_vars

\* both agent ids are in use, one per role, one of the agents is Executing,
\* and a further create_agent call has just been refused
C16_Witness ==
    /\ result.op = "create_agent"
    /\ raised
    /\ DOMAIN agents = AgentIds
    /\ \A role \in AgentsRoles : Cardinality(AgentsOfRole(agents, role)) = 1
    /\ \E a \in DOMAIN agents : agents[a].state = "executing"

\* C17: assign_task on an agent that does not exist, or whose state is not
\* Idle or Completed, raises and leaves every agent's state and current_task
\* as they were.
C17_AssignRefused ==
    [][/\ \A agent_id \in AgentIds : \A task \in AgentsTasks :
            /\ agent_id \notin DOMAIN agents =>
                LET r == assign_task(Manager(agents, role_to_agent),
                                     agent_id, task)
                IN  r.raised /\ r.agents = agents
            /\ agent_id \in DOMAIN agents =>
                \A state \in AgentState \ {"idle", "completed"} :
                    LET ags == [agents EXCEPT ![agent_id].state = state]
                        r == assign_task(Manager(ags, role_to_agent),
                                         agent_id, task)
                    IN  r.raised /\ r.agents = ags
       /\ (result'.op = "assign_task" /\ raised') =>
            /\ UNCHANGED agent_vars
            /\ \/ result'.agent \notin DOMAIN agents
               \/ agents[result'.agent].state \notin {"idle", "completed"}]_vars

\* a Terminated agent has just refused a task
C17_Witness ==
    /\ result.op = "assign_task"
    /\ raised
    /\ result.agent \in DOMAIN agents
    /\ agents[result.agent].state = "terminated"

\* C18: a successful assign_task leaves the agent Executing with the task as
\* its current_task, and leaves the task's status Running.
C18_AssignStartsTask ==
    [][\A a \in DOMAIN agents :
          (agents[a].state # "executing" /\ agents'[a].state = "executing") =>
                /\ agents'[a].current_task \in DOMAIN task_registry
                /\ task_registry'[agents'[a].current_task].status = "running"]_vars

\* C19: complete_task and fail_task raise and change nothing when the agent
\* has no current_task; otherwise they append the task to completed_tasks or
\* failed_tasks once, clear current_task, set the agent to Completed or Failed
\* and the task's status to Completed or Failed.
C19_CompleteAndFail ==
    [][\A a \in DOMAIN agents :
          LET task == agents[a].current_task
              mgr == Manager(agents, role_to_agent)
          IN  /\ task = NoTask =>
                    /\ complete_task(mgr, a).raised
                    /\ complete_task(mgr, a).agents = agents
                    /\ fail_task(mgr, a).raised
                    /\ fail_task(mgr, a).agents = agents
              /\ (task # NoTask /\ agents'[a].completed_tasks
                        = Append(agents[a].completed_tasks, task)) =>
                    /\ agents'[a].state = "completed"
                    /\ agents'[a].current_task = NoTask
                    /\ task_registry'[task].status = "completed"
              /\ (task # NoTask /\ agents'[a].failed_tasks
                        = Append(agents[a].failed_tasks, task)) =>
                    /\ agents'[a].state = "failed"
                    /\ agents'[a].current_task = NoTask
                    /\ task_registry'[task].status = "failed"]_vars

\* C20: an agent whose state is Terminated stays Terminated.
C20_TerminatedAbsorbing ==
    [][\A a \in DOMAIN agents :
          agents[a].state = "terminated" =>
                agents'[a].state = "terminated"]_vars

\* C21: an agent is assignable again after a failure: in the state a
\* successful fail_task leaves, assign_task on that agent is accepted.
C21_RearmedAfterFailure ==
    [][(result'.op = "fail_task" /\ ~raised') =>
          \A task \in AgentsTasks :
              ~assign_task(Manager(agents', role_to_agent'),
                           result'.agent, task).raised]_vars

\* C22: add_task with an id already present raises and leaves task_registry,
\* dependency_graph and reverse_dependencies unchanged; with a new id it does
\* not raise and registers the task, its dependency set under its id, and
\* its id under each of its dependencies in reverse_dependencies, leaving
\* every other entry as it was.
C22_AddTask ==
    [][/\ \A id \in TaskIds :
            add_task_to(Scheduler(task_registry, task_registry_keys,
                            dependency_graph, reverse_dependencies), id,
                AgentTask("engineer", DefaultPriority, {},
                          DefaultMaxRetries)).raised
            <=> id \in DOMAIN task_registry
       /\ result'.op = "none" =>
            \/ /\ raised'
               /\ UNCHANGED <<task_registry, task_registry_keys,
                              dependency_graph, reverse_dependencies>>
               /\ DOMAIN task_registry # {}
            \/ /\ ~raised'
               /\ \E id \in TaskIds \ DOMAIN task_registry :
                    /\ DOMAIN task_registry' = DOMAIN task_registry \cup {id}
                    /\ \A t \in DOMAIN task_registry :
                            /\ task_registry'[t] = task_registry[t]
                            /\ dependency_graph'[t] = dependency_graph[t]
                    /\ task_registry_keys' = Append(task_registry_keys, id)
                    /\ DOMAIN dependency_graph' = DOMAIN task_registry'
                    /\ dependency_graph'[id]
                            = task_registry'[id].dependencies
                    /\ \A d \in TaskIds :
                        Neighbors(reverse_dependencies', d)
                            = Neighbors(reverse_dependencies, d)
                              \cup (IF d \in dependency_graph'[id]
                                    THEN {id} ELSE {})]_vars

\* a registry of three tasks, one of them with two dependencies recorded in
\* both directions, has just refused an add_task with a registered id
C22_Witness ==
    /\ result.op = "none"
    /\ raised
    /\ Len(task_registry_keys) = MaxTasks
    /\ \E t \in DOMAIN dependency_graph :
        /\ Cardinality(dependency_graph[t]) = 2
        /\ \A d \in dependency_graph[t] :
                t \in Neighbors(reverse_dependencies, d)

\* C23: for a task set without cycles, validate_dependencies() returns
\* exactly one error for each task that has a dependency id outside the
\* registry, naming exactly the missing ids, and returns no other error.
C23_MissingReported ==
    (result.op = "validate_dependencies" /\ ~IsCyclic(dependency_graph)) =>
        LET errors == result.value
            lacking == {t \in DOMAIN task_registry :
                            dependency_graph[t] \ DOMAIN task_registry # {}}
        IN  /\ \A i \in 1..Len(errors) :
                    /\ errors[i].kind = "missing"
                    /\ errors[i].task \in lacking
                    /\ errors[i].missing
                        = dependency_graph[errors[i].task]
                            \ DOMAIN task_registry
            /\ \A t \in lacking :
                    Cardinality({i \in 1..Len(errors) :
                                    errors[i].task = t}) = 1
            /\ Len(errors) = Cardinality(lacking)

\* two tasks with unregistered dependencies, each reported once, one of them
\* with a registered dependency too, which the error does not name
C23_Witness ==
    /\ result.op = "validate_dependencies"
    /\ ~IsCyclic(dependency_graph)
    /\ Len(result.value) = 2
    /\ result.value[1].task # result.value[2].task
    /\ \E i \in 1..2 :
            result.value[i].missing # dependency_graph[result.value[i].task]

\* the tasks placed at the first n positions of an order
PlacedBefore(order, n) == {order[i] : i \in 1..n}

\* C24: get_execution_order() raises, and returns no list, whenever some
\* registered task cannot be ordered (a cycle, or a dependency that is not
\* registered); whenever it returns, the list holds every registered task
\* exactly once, and each position holds a task of the highest priority among
\* the unplaced tasks whose dependencies are all placed before it.
C24_ExecutionOrderComplete ==
    result.op = "get_execution_order" =>
        /\ (IsCyclic(dependency_graph) \/ ~AllDepsRegistered(dependency_graph))
                => raised
        /\ raised => result.value = << >>
        /\ ~raised =>
            /\ Len(result.value) = Cardinality(DOMAIN task_registry)
            /\ Range(result.value) = DOMAIN task_registry
            /\ \A i \in 1..Len(result.value) :
                LET placed == PlacedBefore(result.value, i - 1)
                IN  \A t \in DOMAIN task_registry \ placed :
                        dependency_graph[t] \subseteq placed =>
                            _priority_value(task_registry[t].priority)
                            <= _priority_value(
                                task_registry[result.value[i]].priority)

\* three tasks have been ordered: the one registered first has normal
\* priority, and a high-priority task registered after it is placed first;
\* the third depends on one of them
C24_Witness ==
    /\ result.op = "get_execution_order"
    /\ ~raised
    /\ Len(result.value) = 3
    /\ task_registry[task_registry_keys[1]].priority = "normal"
    /\ result.value[1] # task_registry_keys[1]
    /\ task_registry[result.value[1]].priority = "high"
    /\ dependency_graph[result.value[2]] = {}
    /\ dependency_graph[result.value[3]] # {}

\* C25: when a registered state-change observer raises, the transition of
\* assign_task / complete_task / fail_task / set_agent_state still takes
\* effect, every registered observer is still invoked, in order, and no
\* exception reaches the caller: these calls raise only when they refuse the
\* call before changing anything, and then no observer is invoked.
C25_ObserverFailureContained ==
    [][LET a == NotifyAgentId
           known == a \in DOMAIN agents
           accepted ==
               \/ /\ result'.op = "assign_task"
                  /\ known /\ agents[a].state \in {"idle", "completed"}
                  /\ agents'[a].state = "executing"
                  /\ agents'[a].current_task = result'.arg
               \/ /\ result'.op = "complete_task"
                  /\ known /\ agents[a].current_task # NoTask
                  /\ agents'[a].state = "completed"
                  /\ agents'[a].current_task = NoTask
               \/ /\ result'.op = "fail_task"
                  /\ known /\ agents[a].current_task # NoTask
                  /\ agents'[a].state = "failed"
                  /\ agents'[a].current_task = NoTask
               \/ /\ result'.op = "set_agent_state"
                  /\ known
                  /\ agents'[a].state = result'.arg
           refused ==
               /\ raised'
               /\ UNCHANGED <<agents, role_to_agent>>
               /\ invoked' = << >>
               /\ \/ ~known
                  \/ /\ result'.op = "assign_task"
                     /\ agents[a].state \notin {"idle", "completed"}
                  \/ /\ result'.op \in {"complete_task", "fail_task"}
                     /\ agents[a].current_task = NoTask
       IN  result'.op \in {"assign_task", "complete_task", "fail_task",
                           "set_agent_state"} =>
                \/ /\ accepted
                   /\ ~raised'
                   /\ invoked' = [i \in 1..Len(state_change_callbacks) |-> i]
                \/ refused]_vars

\* fail_task has taken effect and both observers have been invoked although
\* the first one raised
C25_Witness ==
    /\ result.op = "fail_task"
    /\ ~raised
    /\ state_change_callbacks = <<"raises", "returns">>
    /\ invoked = <<1, 2>>
    /\ agents[NotifyAgentId].state = "failed"
    /\ agents[NotifyAgentId].failed_tasks # << >>

\* C26: cancel_session on an unknown session id, or on a session whose status
\* is already Completed, Failed or Cancelled, returns False and changes no
\* session, no agent and no task.
C26_CancelRejected ==
    [][(/\ result'.op = "cancel_session"
        /\ \/ result'.session \notin DOMAIN sessions
           \/ sessions[result'.session].status \in Terminal) =>
            /\ result'.value = FALSE
            /\ ~raised'
            /\ UNCHANGED <<sessions, agent_vars, sched_vars>>]_vars

\* cancel_session has just been rejected for a session that had completed
\* while another session is running
C26_Witness ==
    /\ result.op = "cancel_session"
    /\ result.value = FALSE
    /\ result.session \in DOMAIN sessions
    /\ sessions[result.session].status = "completed"
    /\ \E other \in DOMAIN sessions : sessions[other].status = "running"

\* C27: a session is removed from memory only when its status is Completed,
\* Failed or Cancelled, never while it is Initializing or Running, and the
\* step that removes it asks the sandbox service to clean up for it.
C27_RemovedOnlyWhenTerminal ==
    [][\A sid \in DOMAIN active_sessions :
          sid \notin DOMAIN active_sessions' =>
                /\ active_sessions[sid].status \in Terminal
                /\ sid \in sandbox_cleanups']_vars

\* C28: every started session eventually reaches a terminal status, given
\* that every agent-execution call settles: _execute_session comes to its end
\* whatever tasks succeed or fail.
C28_SessionTerminates ==
    (pc = "created") ~>
        (pc = "done" /\ active_sessions[SessionId].status \in Terminal)

\* a session has ended after one of its tasks succeeded, another failed and a
\* third was never dispatched
C28_Witness ==
    /\ pc = "done"
    /\ active_sessions[SessionId].status \in Terminal
    /\ active_sessions[SessionId].completed_tasks > 0
    /\ active_sessions[SessionId].failed_tasks > 0
    /\ task_queue[SessionId] # << >>

\* C29: when the loop ends with unfinished tasks left in the queue (no task
\* ready, none in flight), the session ends with status Failed and never with
\* status Completed.
C29_StalledSessionFails ==
    (pc = "done" /\ task_queue[SessionId] # << >>) =>
        active_sessions[SessionId].status = "failed"

\* C30: the next ready batch is computed, and tasks are taken off the queue
\* and dispatched, only when every call of the batch dispatched before has
\* settled (returned or raised).
C30_BatchBarrier ==
    [][(\/ pc' = "loop" /\ pc = "gather"
        \/ task_queue' # task_queue
        \/ execution_tasks' # execution_tasks
        \/ DOMAIN coroutine' # DOMAIN coroutine) =>
            \A t \in DOMAIN coroutine :
                coroutine[t] \in {"returned", "raised"}]_vars

\* the loop is about to compute a batch after a batch of two, one call of
\* which returned and the other raised
C30_Witness ==
    /\ pc = "loop"
    /\ Len(execution_tasks) = 2
    /\ coroutine[execution_tasks[1]] # coroutine[execution_tasks[2]]
    /\ \A t \in DOMAIN coroutine : coroutine[t] \in {"returned", "raised"}
    /\ task_queue[SessionId] # << >>

\* C32: the sandbox handoff happens at most once per session, only after
\* every task of the session is in a terminal state (Completed or Failed),
\* and only if at least one code artifact exists.
C32_HandoffOnce ==
    [][sandbox_handoffs' # sandbox_handoffs =>
          /\ sandbox_handoffs = 0
          /\ sandbox_handoffs' = 1
          /\ \A t \in Range(active_sessions[SessionId].tasks) :
                LegacyStatus(legacy_registry[t]) \in {"completed", "failed"}
          /\ code_artifacts # {}]_vars

\* C33: a process started with start_process can be stopped: for any
\* command, stop_process with the id start_process returned, called after
\* start_process has returned on a process that has not been stopped or
\* cleaned up before, yields true and leaves the process Killed.
C33_StartedProcessStops ==
    [][\A p \in DOMAIN processes :
          (/\ result'.op = "stop_process"
           /\ result'.process = p
           /\ start_calls[p] = "returned"
           /\ processes[p].state # "killed") =>
                /\ result'.value = TRUE
                /\ processes'[p].state = "killed"]_vars

\* C34: every task id mark_task_completed(t) returns is a newly available
\* task: its status is Pending and all of its dependencies, not only t, are
\* Completed.
C34_NewlyAvailableReady ==
    [][\A id \in DOMAIN task_registry :
          mark_task_completed(id) =>
              \A d \in newly_available(id, task_registry') :
                  /\ task_registry'[d].status = "pending"
                  /\ \A dep \in dependency_graph[d] :
                        /\ dep \in DOMAIN task_registry
                        /\ task_registry'[dep].status = "completed"]_vars


\* C35: at every reachable state of the orchestrator an agent has a
\* current_task if and only if its state is Executing, also after
\* cancel_session and after the state updates at the end of a session's
\* execution.
C35_CurrentTaskIffExecuting ==
    \A a \in DOMAIN agents :
        (agents[a].current_task # NoTask) <=> (agents[a].state = "executing")


\* C36: when create_session fails, the orchestrator is left as it was before
\* the call: the agent manager holds no agent of the failed session, the task
\* scheduler holds no task of it, and no session entry exists for it.
C36_FailedCreateLeavesNothing ==
    [][(result'.op = "create_session" /\ raised') =>
            /\ agents' = agents
            /\ role_to_agent' = role_to_agent
            /\ task_registry' = task_registry
            /\ task_registry_keys' = task_registry_keys
            /\ dependency_graph' = dependency_graph
            /\ reverse_dependencies' = reverse_dependencies
            /\ sessions' = sessions]_vars


\* C37: validate_dependencies() returns an empty list if and only if every
\* dependency id is registered and the dependency relation is acyclic; for
\* an acyclic graph it reports no cycle, whatever the order in which the
\* tasks were registered and the dependency sets are visited.
C37_ValidIffRegisteredAcyclic ==
    result.op = "validate_dependencies" =>
        /\ (result.value = << >>) <=>
                (/\ AllDepsRegistered(dependency_graph)
                 /\ ~IsCyclic(dependency_graph))
        /\ ~IsCyclic(dependency_graph) =>
                \A i \in DOMAIN result.value : result.value[i].kind # "cycle"

\* a validated graph without errors in which a task is reached along two
\* paths: one task depends on two others, one of which depends on the other
C37_Witness ==
    /\ result.op = "validate_dependencies"
    /\ result.value = << >>
    /\ \E a, b, c \in DOMAIN dependency_graph :
            /\ dependency_graph[a] = {b, c}
            /\ dependency_graph[b] = {c}
            /\ dependency_graph[c] = {}
            /\ b # c


\* C38: after any sequence of add_task calls reverse_dependencies is the
\* exact inverse of dependency_graph: task t is in reverse_dependencies[d]
\* if and only if d is in dependency_graph[t].
C38_ReverseIsInverse ==
    \A t, d \in GraphIds(dependency_graph) \cup GraphIds(reverse_dependencies) :
        (t \in Neighbors(reverse_dependencies, d))
            <=> (d \in Neighbors(dependency_graph, t))

\* two tasks share a dependency, and one of them also waits for a task that
\* was registered after it
C38_Witness ==
    \E t, u, d \in DOMAIN task_registry :
        /\ t # u
        /\ Neighbors(reverse_dependencies, d) = {t, u}
        /\ Cardinality(dependency_graph[t]) = 2
        /\ \E e \in dependency_graph[t] :
                /\ e \in DOMAIN task_registry
                /\ PositionIn(task_registry_keys, e)
                        > PositionIn(task_registry_keys, t)


\* C39: after any sequence of create_agent and cleanup_inactive_agents calls
\* role_to_agent and agents are consistent: every role in role_to_agent maps
\* to an existing agent of that role, and every agent in agents is the one
\* mapped from its role.
C39_RolesConsistent ==
    /\ \A role \in DOMAIN role_to_agent :
            /\ role_to_agent[role] \in DOMAIN agents
            /\ agents[role_to_agent[role]].role = role
    /\ \A a \in DOMAIN agents :
            /\ agents[a].role \in DOMAIN role_to_agent
            /\ role_to_agent[agents[a].role] = a

\* a cleanup has just removed an agent and left a busy one registered
C39_Witness ==
    /\ result.op = "cleanup_inactive_agents"
    /\ result.value # {}
    /\ \E a \in DOMAIN agents : agents[a].state = "executing"
    /\ DOMAIN role_to_agent # {}

====
